---- MODULE Spec2Model ----
(***************************************************************************)
(* Model of the cTrader Open API client src/ctrader-live-feed.mjs: the     *)
(* start-up token refresh, the TLS connection with its 'data', 'error' and *)
(* 'close' handlers, the length-prefixed frame loop, the payloadType       *)
(* dispatch, the emitter callbacks that drive the handshake, the operator  *)
(* prompt and the 5 second reconnect timer.  The gateway, the OAuth        *)
(* authority, the operator and the network are the environment.            *)
(***************************************************************************)
EXTENDS Integers, Sequences, FiniteSets, TLC

(***************************************************************************)
(* Bounds of the model.                                                    *)
(***************************************************************************)
\* sockets opened by connect() in one run
MaxConn == 2
\* frames the gateway sends that answer no outstanding request
MaxAsync == 1
\* frames the gateway sends in one run, over all connections
MaxFrames == 5
\* bytes in flight from the gateway to the client on one socket
MaxWire == 12

(***************************************************************************)
(* Wire discriminators.  The code reads them from the protobuf enum        *)
(* ProtoOAPayloadType (PayloadTypeEnum.values.X); only their being         *)
(* distinct matters here.  Each fits one byte of the modelled envelope.    *)
(***************************************************************************)
PROTO_OA_APPLICATION_AUTH_REQ == 0
PROTO_OA_APPLICATION_AUTH_RES == 1
PROTO_OA_ACCOUNT_AUTH_REQ == 2
PROTO_OA_ACCOUNT_AUTH_RES == 3
PROTO_OA_VERSION_REQ == 4
PROTO_OA_VERSION_RES == 5
PROTO_OA_SYMBOLS_LIST_REQ == 14
PROTO_OA_SYMBOLS_LIST_RES == 15
PROTO_OA_SUBSCRIBE_SPOTS_REQ == 27
PROTO_OA_SUBSCRIBE_SPOTS_RES == 28
PROTO_OA_SPOT_EVENT == 31
PROTO_OA_ERROR_RES == 42
\* a discriminator that the dispatch switch has no case for
PT_UNRECOGNIZED == 99
\* the payloadType of an envelope that was created without one: 0, the
\* default of a uint32 field.  The codes above are the real ones less 2100,
\* so that the real 0 needs a code of its own here.
PT_DEFAULT == 100

\* errorCode values carried by ProtoOAErrorRes (one byte of payload here)
ERR_TOKEN_EXPIRED == 1
ERR_OTHER == 2

\* access tokens: the one read from the environment and the one the
\* authority issues; NoToken stands for JavaScript's undefined
NoToken == 0
OldToken == 1
NewToken == 2

\* CTRADER_ACCOUNT_ID: the account configured in .env; NoAccount stands
\* for JavaScript's undefined, NaN for what parseInt makes of it
NoAccount == 0
ConfiguredAccount == 7
NaN == -1

\* parseInt(CTRADER_ACCOUNT_ID), lines 124, 128, 148
ParseInt(a) == IF a = NoAccount THEN NaN ELSE a

(***************************************************************************)
(* PayloadMap, lines 89-95: message kind -> wire discriminator.            *)
(***************************************************************************)
ReqKinds == {"VersionReq", "AppAuthReq", "AccountAuthReq", "SymbolsListReq", "SubscribeSpotsReq"}

PayloadMap ==
  [ VersionReq        |-> PROTO_OA_VERSION_REQ,
    AppAuthReq        |-> PROTO_OA_APPLICATION_AUTH_REQ,
    AccountAuthReq    |-> PROTO_OA_ACCOUNT_AUTH_REQ,
    SymbolsListReq    |-> PROTO_OA_SYMBOLS_LIST_REQ,
    SubscribeSpotsReq |-> PROTO_OA_SUBSCRIBE_SPOTS_REQ ]

(***************************************************************************)
(* Bytes and the 4-byte big-endian length prefix.                          *)
(***************************************************************************)
\* header.writeUInt32BE(n, 0), line 111
WriteUInt32BE(n) ==
  << (n \div 16777216) % 256, (n \div 65536) % 256, (n \div 256) % 256, n % 256 >>

\* recvBuffer.readUInt32BE(0), line 173
ReadUInt32BE(b) ==
  b[1] * 16777216 + b[2] * 65536 + b[3] * 256 + b[4]

\* ProtoMessage.encode(wrap).finish(), line 109: the envelope is modelled
\* as the discriminator followed by the opaque payload bytes
EncodeEnvelope(pt, payload) == <<pt>> \o payload

\* ProtoMessage.decode(msgBuf), line 177, throws when the required
\* payloadType field is missing
Decodable(msgBuf) == Len(msgBuf) >= 1

DecodeEnvelope(msgBuf) ==
  [ payloadType |-> msgBuf[1], payload |-> SubSeq(msgBuf, 2, Len(msgBuf)) ]

\* the bytes one send() writes: header, then wrapBuf (lines 110-113)
FrameBytes(body) == WriteUInt32BE(Len(body)) \o body

(***************************************************************************)
(* Instruments.  A SymbolsListRes payload is a list of symbol ids; the     *)
(* names come from the decoded message.  toUpperCase() is a table.         *)
(***************************************************************************)
SymbolName(id) == IF id = 1 THEN "EurUsd" ELSE "xau"

ToUpperCase(s) ==
  CASE s = "EurUsd" -> "EURUSD"
    [] s = "eurusd" -> "EURUSD"
    [] s = "xau"    -> "XAU"
    [] s = "gbp"    -> "GBP"
    [] OTHER        -> s

\* what the operator may type at the prompt
Answers == {"eurusd", "gbp"}

\* all.find(s => s.symbolName.toUpperCase() === sym), line 146:
\* index of the first match, 0 when there is none
FindSymbol(all, sym) ==
  LET hits == { i \in 1..Len(all) : ToUpperCase(SymbolName(all[i])) = sym }
  IN  IF hits = {} THEN 0 ELSE CHOOSE i \in hits : \A j \in hits : i <= j

(***************************************************************************)
(* State.                                                                  *)
(***************************************************************************)
VARIABLES
  pc,            \* position of the top-level script (lines 206-207)
  accountId,     \* CTRADER_ACCOUNT_ID
  accessToken,   \* CTRADER_ACCESS_TOKEN
  refreshToken,  \* CTRADER_REFRESH_TOKEN
  env,           \* the .env file
  sock,          \* the variable sock (line 161): index into socks, 0 = null
  socks,         \* every socket tls.connect has returned
  recvBuffer,    \* the variable recvBuffer (line 162)
  timers,        \* pending setTimeout(connect, 5000) timers
  prompts,       \* pending rl.question promises of 'symbols_list' handlers
  log,            \* requests written and frames dispatched, in order
  console,       \* lines printed to the operator
  frames,        \* every msgBuf the frame loop has extracted
  nAsync,        \* unsolicited frames sent by the gateway so far
  nFrames,       \* frames sent by the gateway so far
  lf,            \* the state of the draft of 2025-05-22 17:59 (see below)
  rt,            \* the state of the draft of 2025-05-22 19:34 (see below)
  sx,            \* one call of send with its arguments and its effect (see below)
  p8,            \* the state of the draft src/unnamed/part_008 (see below)
  store,         \* the .env file and the credentials of one refresh, key by key (see below)
  ga             \* the state of src/_arch_working/getTradingAccounts.mjs (see below)

\* the variables of src/ctrader-live-feed.mjs
mainVars == << pc, accountId, accessToken, refreshToken, env, sock, socks, recvBuffer, timers,
               prompts, log, console, frames, nAsync, nFrames >>

vars == << mainVars, lf, rt, sx, p8, store, ga >>


(***************************************************************************)
(* Views of the state.                                                     *)
(***************************************************************************)
\* an entry of log: c the socket, d "tx" (a request send() wrote), "rx" (a
\* frame the switch dispatched) or "refresh" (a call of refreshAccessToken),
\* k the kind, v the value that matters (access token sent, errorCode
\* received, symbol id subscribed), cause the index of the "rx" entry whose
\* callback wrote a "tx" entry (0: the callback of tls.connect)
Entry(c, d, k, v, cause) == [ c |-> c, d |-> d, k |-> k, v |-> v, cause |-> cause ]

Line(m, a) == [ m |-> m, a |-> a ]

\* a socket accepts socket.write while it is connecting (the bytes are
\* queued until the TLS handshake ends) or open; a destroyed socket drops them
Writable(s) == s # 0 /\ socks[s].state \in {"connecting", "open"}

\* the requests written to socket s, oldest first
Written(s) == SelectSeq(log, LAMBDA e : e.c = s /\ e.d = "tx")

(***************************************************************************)
(* send, lines 105-115.  st is the state a running handler works on.       *)
(***************************************************************************)
send(st, socket, typeName, v, cause) ==
  [ st EXCEPT
      !.log     = IF Writable(socket) THEN Append(@, Entry(socket, "tx", typeName, v, cause)) ELSE @,
      !.console = Append(@, Line("Sent", typeName)) ]

(***************************************************************************)
(* The emitter callbacks, lines 118-158.                                   *)
(***************************************************************************)
\* emitter.on('version'), lines 118-121
OnVersion(st, cause) ==
  send([st EXCEPT !.console = Append(@, Line("Version handshake complete", ""))],
       sock, "AppAuthReq", 0, cause)

\* emitter.on('auth_app'), lines 122-125
OnAuthApp(st, cause) ==
  send([st EXCEPT !.console = Append(@, Line("App authenticated", ""))],
       sock, "AccountAuthReq", accessToken, cause)

\* an 'auth_account' callback that sends a kind without a discriminator
OnAuthAccountSendsUnmapped(st, cause) ==
  send([st EXCEPT !.console = Append(@, Line("Account authenticated", ""))],
       sock, "SymbolsListRes", 0, cause)

\* emitter.on('auth_account'), lines 126-129
OnAuthAccount(st, cause) ==
  send([st EXCEPT !.console = Append(@, Line("Account authenticated", ""))],
       sock, "SymbolsListReq", 0, cause)

\* a 'symbols_list' callback that stores the list and asks nothing
OnSymbolsListWithoutPrompt(st, s, all, cause) ==
  [ st EXCEPT
      !.console = @ \o << Line("Received symbols", ""), Line("symbols.csv written", "") >> ]

\* emitter.on('symbols_list') up to the await, lines 130-145: the list is
\* written to symbols.csv and the operator is asked; the rest of the
\* handler runs when the answer arrives (AnswerPrompt)
OnSymbolsList(st, s, all, cause) ==
  [ st EXCEPT
      !.console = @ \o << Line("Received symbols", ""), Line("symbols.csv written", "") >>,
      !.prompts = Append(@, [ all |-> all, c |-> s, cause |-> cause ]) ]

\* a 'spot' callback that subscribes again
OnSpotSubscribes(st) ==
  send([ st EXCEPT !.console = Append(@, Line("Spot", "")) ], sock, "SubscribeSpotsReq", 1, Len(st.log))

\* emitter.on('spot'), lines 150-155
OnSpot(st) ==
  [ st EXCEPT !.console = Append(@, Line("Spot", "")) ]

\* emitter.on('error_res'), lines 156-158
OnErrorRes(st, code) ==
  [ st EXCEPT !.console = Append(@, Line("API Error", IF code = ERR_TOKEN_EXPIRED THEN "expired" ELSE "other")) ]

\* a switch whose default branch treats the frame as a VersionRes
EventOfDefaultIsVersion(pt) ==
  CASE pt = PROTO_OA_VERSION_RES          -> "version"
    [] pt = PROTO_OA_APPLICATION_AUTH_RES -> "auth_app"
    [] pt = PROTO_OA_ACCOUNT_AUTH_RES     -> "auth_account"
    [] pt = PROTO_OA_SYMBOLS_LIST_RES     -> "symbols_list"
    [] pt = PROTO_OA_SPOT_EVENT           -> "spot"
    [] pt = PROTO_OA_ERROR_RES            -> "error_res"
    [] OTHER                              -> "version"

\* the event name each case of the switch emits (lines 180-195)
EventOf(pt) ==
  CASE pt = PROTO_OA_VERSION_RES          -> "version"
    [] pt = PROTO_OA_APPLICATION_AUTH_RES -> "auth_app"
    [] pt = PROTO_OA_ACCOUNT_AUTH_RES     -> "auth_account"
    [] pt = PROTO_OA_SYMBOLS_LIST_RES     -> "symbols_list"
    [] pt = PROTO_OA_SPOT_EVENT           -> "spot"
    [] pt = PROTO_OA_ERROR_RES            -> "error_res"
    [] OTHER                              -> "unhandled"

\* the first byte of an ErrorRes payload is its errorCode
ErrorCodeOf(payload) == IF Len(payload) >= 1 THEN payload[1] ELSE 0

\* switch(pt), lines 180-195, for a frame received on socket s
Dispatch(st, s, wrap) ==
  LET pt  == wrap.payloadType
      ev  == EventOf(pt)
      val == IF ev = "error_res" THEN ErrorCodeOf(wrap.payload) ELSE 0
      st1 == [ st EXCEPT !.log = Append(@, Entry(s, "rx", ev, val, 0)) ]
      me  == Len(st1.log)
  IN  CASE ev = "version"      -> OnVersion(st1, me)
        [] ev = "auth_app"     -> OnAuthApp(st1, me)
        [] ev = "auth_account" -> OnAuthAccount(st1, me)
        [] ev = "symbols_list" -> OnSymbolsList(st1, s, wrap.payload, me)
        [] ev = "spot"         -> OnSpot(st1)
        [] ev = "error_res"    -> OnErrorRes(st1, val)
        [] OTHER               -> [ st1 EXCEPT !.console = Append(@, Line("Unhandled payload", "")) ]

(***************************************************************************)
(* The frame loop of the 'data' handler, lines 172-196.                    *)
(***************************************************************************)
\* a 'data' handler that keeps only the newest chunk
BufferConcatDropsOld(buf, chunk) == chunk

\* Buffer.concat([recvBuffer, chunk]), line 171
BufferConcat(buf, chunk) == buf \o chunk

\* a frame loop without the test of line 174: the body is whatever follows
\* the prefix, up to the declared length
RECURSIVE FrameLoopWithoutWait(_, _)
FrameLoopWithoutWait(st, s) ==
  IF Len(st.buf) < 4 THEN st
  ELSE LET len    == ReadUInt32BE(st.buf)
           last   == IF 4 + len < Len(st.buf) THEN 4 + len ELSE Len(st.buf)
           msgBuf == SubSeq(st.buf, 5, last)
           st1    == [ st EXCEPT !.buf    = SubSeq(@, last + 1, Len(@)),
                                  !.frames = Append(@, msgBuf) ]
       IN  IF ~Decodable(msgBuf)
             THEN [ st1 EXCEPT !.crashed = TRUE ]
             ELSE FrameLoopWithoutWait(Dispatch(st1, s, DecodeEnvelope(msgBuf)), s)

\* an 'if' in place of the 'while' of line 172: one frame per delivery
FrameLoopOnce(st, s) ==
  IF Len(st.buf) < 4 THEN st
  ELSE LET len == ReadUInt32BE(st.buf) IN
       IF Len(st.buf) < 4 + len THEN st
       ELSE LET msgBuf == SubSeq(st.buf, 5, 4 + len)
                st1    == [ st EXCEPT !.buf    = SubSeq(@, 5 + len, Len(@)),
                                       !.frames = Append(@, msgBuf) ]
            IN  IF ~Decodable(msgBuf)
                  THEN [ st1 EXCEPT !.crashed = TRUE ]
                  ELSE Dispatch(st1, s, DecodeEnvelope(msgBuf))

RECURSIVE FrameLoop(_, _)
FrameLoop(st, s) ==
  IF Len(st.buf) < 4 THEN st
  ELSE LET len == ReadUInt32BE(st.buf) IN
       IF Len(st.buf) < 4 + len THEN st
       ELSE LET msgBuf == SubSeq(st.buf, 5, 4 + len)
                st1    == [ st EXCEPT !.buf    = SubSeq(@, 5 + len, Len(@)),
                                       !.frames = Append(@, msgBuf) ]
            IN  IF ~Decodable(msgBuf)
                  THEN [ st1 EXCEPT !.crashed = TRUE ]
                  ELSE FrameLoop(Dispatch(st1, s, DecodeEnvelope(msgBuf)), s)

\* the handler state before a handler runs
Handler(buf) ==
  [ buf |-> buf, log |-> log, console |-> console, prompts |-> prompts,
    frames |-> frames, crashed |-> FALSE ]


(***************************************************************************)
(* send at the level of bytes, lines 105-115, for any typeName.            *)
(***************************************************************************)
\* the keys of MessageTypes, lines 78-87
MessageTypes ==
  { "VersionReq", "AppAuthReq", "AccountAuthReq", "SymbolsListReq", "SubscribeSpotsReq",
    "SymbolsListRes", "SpotEvent", "ErrorRes" }

\* writer.uint32 / writer.int64 of a field value below 128: one byte; NaN
\* is written as 0
Varint(v) == IF v = NaN THEN 0 ELSE v

\* msgType.encode(msgType.create(payload)).finish(), line 107: field i of
\* the message with its tag (field number * 8, wire type 0) and its value
RECURSIVE EncodeFields(_, _)
EncodeFields(fields, i) ==
  IF i > Len(fields) THEN <<>>
  ELSE << 8 * i, Varint(fields[i]) >> \o EncodeFields(fields, i + 1)

\* msgType.decode(payload), lines 188-192: the values of the fields
RECURSIVE DecodeFields(_)
DecodeFields(buf) ==
  IF Len(buf) < 2 THEN <<>>
  ELSE << buf[2] >> \o DecodeFields(SubSeq(buf, 3, Len(buf)))

\* PayloadMap[typeName], line 108: undefined for a key that is not there,
\* and ProtoMessage.create leaves the field at its default then
PayloadTypeOf(typeName) ==
  IF typeName \in DOMAIN PayloadMap THEN PayloadMap[typeName] ELSE PT_DEFAULT

\* a send whose header counts its own four bytes
sendBytesHeaderCountsItself(typeName, fields) ==
  IF typeName \notin MessageTypes
    THEN [ thrown |-> TRUE, written |-> <<>>, console |-> <<>> ]
    ELSE LET buf     == EncodeFields(fields, 1)
             wrapBuf == EncodeEnvelope(PayloadTypeOf(typeName), buf)
         IN  [ thrown  |-> FALSE,
               written |-> WriteUInt32BE(Len(wrapBuf) + 4) \o wrapBuf,
               console |-> << Line("Sent", typeName) >> ]

\* send(socket, typeName, payload): what it throws, writes and prints.
\* MessageTypes[typeName] is undefined for a key that is not there and
\* line 107 throws a TypeError on it before anything is written.
sendBytes(typeName, fields) ==
  IF typeName \notin MessageTypes
    THEN [ thrown |-> TRUE, written |-> <<>>, console |-> <<>> ]
    ELSE LET buf     == EncodeFields(fields, 1)
             wrapBuf == EncodeEnvelope(PayloadTypeOf(typeName), buf)
         IN  [ thrown  |-> FALSE,
               written |-> WriteUInt32BE(Len(wrapBuf)) \o wrapBuf,
               console |-> << Line("Sent", typeName) >> ]

\* the names send may be called with: the registered ones and one that
\* is in neither table
SendNames == MessageTypes \cup { "GetAccountsReq" }

\* field values and payloads
FieldValues == { NaN, 1, 2 }

MaxFields == 2

Payloads == UNION { [1..k -> FieldValues] : k \in 0..MaxFields }

\* no call of send is being looked at
SxIdle ==
  [ typeName |-> "", payload |-> <<>>, called |-> FALSE, thrown |-> FALSE,
    written |-> <<>>, console |-> <<>> ]

(***************************************************************************)
(* The gateway's repertoire.                                               *)
(***************************************************************************)
Msg(pt, payload) == [ pt |-> pt, payload |-> payload ]

ErrorMsgs == { Msg(PROTO_OA_ERROR_RES, <<ERR_TOKEN_EXPIRED>>), Msg(PROTO_OA_ERROR_RES, <<ERR_OTHER>>) }

\* the answers the gateway may give to a request: its matching response,
\* or an ErrorRes
Replies(req) ==
  CASE req = "VersionReq"        -> { Msg(PROTO_OA_VERSION_RES, <<>>) }
    [] req = "AppAuthReq"        -> { Msg(PROTO_OA_APPLICATION_AUTH_RES, <<>>) } \cup ErrorMsgs
    [] req = "AccountAuthReq"    -> { Msg(PROTO_OA_ACCOUNT_AUTH_RES, <<>>) } \cup ErrorMsgs
    [] req = "SymbolsListReq"    -> { Msg(PROTO_OA_SYMBOLS_LIST_RES, <<1>>) } \cup ErrorMsgs
    [] req = "SubscribeSpotsReq" -> { Msg(PROTO_OA_SUBSCRIBE_SPOTS_RES, <<>>) } \cup ErrorMsgs
    [] OTHER                     -> {}

\* the bodies of the frames the gateway may send at any time: events, every
\* response unasked, an unknown discriminator, and the empty body, which
\* is no envelope
AsyncBodies ==
  { EncodeEnvelope(m.pt, m.payload) :
      m \in { Msg(PROTO_OA_SPOT_EVENT, <<1>>),
              Msg(PROTO_OA_VERSION_RES, <<>>),
              Msg(PROTO_OA_APPLICATION_AUTH_RES, <<>>),
              Msg(PROTO_OA_ACCOUNT_AUTH_RES, <<>>),
              Msg(PROTO_OA_SYMBOLS_LIST_RES, <<1>>),
              Msg(PT_UNRECOGNIZED, <<>>) } \cup ErrorMsgs }
  \cup { <<>> }

\* what the token endpoint may return in a 200 response
RefreshReplies ==
  { [ access_token |-> NewToken, refresh_token |-> NewToken ] }

(***************************************************************************)
(* Init: the script has been loaded and dotenv has read .env; line 206 is  *)
(* about to call refreshAccessToken().                                     *)
(***************************************************************************)
InitMain ==
  /\ pc = "start"
  /\ accessToken = OldToken
  /\ refreshToken = OldToken
  /\ env = [ CTRADER_ACCESS_TOKEN |-> OldToken, CTRADER_REFRESH_TOKEN |-> OldToken ]
  /\ sock = 0
  /\ socks = <<>>
  /\ recvBuffer = <<>>
  /\ timers = 0
  /\ prompts = <<>>
  /\ log = <<>>
  /\ console = <<>>
  /\ frames = <<>>
  /\ nAsync = 0
  /\ nFrames = 0

(***************************************************************************)
(* refreshAccessToken, lines 28-58.                                        *)
(***************************************************************************)
\* update(k, v), line 48: the new line when v is truthy, else the old line
Update(old, v) == IF v # NoToken THEN v ELSE old

\* refreshAccessToken() is called and posts the exchange (lines 29-38)
RefreshCalled ==
  /\ pc = "start"
  /\ pc' = "refreshing"
  /\ log' = Append(log, Entry(0, "refresh", "refreshAccessToken", refreshToken, 0))
  /\ UNCHANGED << lf, rt, sx, p8, store, ga, accountId, accessToken, refreshToken, env, sock, socks, recvBuffer, timers,
                  prompts, console, frames, nAsync, nFrames >>

\* the exchange succeeded (lines 43-57)
RefreshOk(data) ==
  /\ pc = "refreshing"
  /\ console' = Append(console, Line("Token refreshed successfully", ""))
  /\ env' = [ CTRADER_ACCESS_TOKEN  |-> Update(env.CTRADER_ACCESS_TOKEN, data.access_token),
              CTRADER_REFRESH_TOKEN |-> Update(env.CTRADER_REFRESH_TOKEN, data.refresh_token) ]
  /\ accessToken' = data.access_token
  /\ pc' = "loading"
  /\ UNCHANGED << lf, rt, sx, p8, store, ga, accountId, refreshToken, sock, socks, recvBuffer, timers, prompts, log,
                  frames, nAsync, nFrames >>

\* the .env file when fs.writeFileSync (line 56), which truncates the file
\* and then writes newEnv into it, got as far as the first n of the two
\* token lines; NoToken stands for a line that is not there
WriteFileSyncUpTo(newEnv, n) ==
  [ CTRADER_ACCESS_TOKEN  |-> IF n >= 1 THEN newEnv.CTRADER_ACCESS_TOKEN ELSE NoToken,
    CTRADER_REFRESH_TOKEN |-> IF n >= 2 THEN newEnv.CTRADER_REFRESH_TOKEN ELSE NoToken ]

\* the process is killed, or the machine stops, while fs.writeFileSync of
\* line 56 is at work: the file keeps what was written until then
RefreshKilled(data, n) ==
  /\ pc = "refreshing"
  /\ n \in 0..1
  /\ console' = Append(console, Line("Token refreshed successfully", ""))
  /\ env' = WriteFileSyncUpTo(
              [ CTRADER_ACCESS_TOKEN  |-> Update(env.CTRADER_ACCESS_TOKEN, data.access_token),
                CTRADER_REFRESH_TOKEN |-> Update(env.CTRADER_REFRESH_TOKEN, data.refresh_token) ], n)
  /\ pc' = "killed"
  /\ UNCHANGED << lf, rt, sx, p8, store, ga, accountId, accessToken, refreshToken, sock, socks, recvBuffer, timers,
                  prompts, log, frames, nAsync, nFrames >>

\* a failed exchange after which the script goes on
RefreshNotOkGoesOn ==
  /\ pc = "refreshing"
  /\ console' = Append(console, Line("Token refresh failed", ""))
  /\ pc' = "loading"
  /\ UNCHANGED << lf, rt, sx, p8, store, ga, accountId, accessToken, refreshToken, env, sock, socks, recvBuffer,
                  timers, prompts, log, frames, nAsync, nFrames >>

\* a failed exchange that rewrites .env with the tokens it did not get
RefreshNotOkRewritesEnv ==
  /\ pc = "refreshing"
  /\ console' = Append(console, Line("Token refresh failed", ""))
  /\ env' = [ CTRADER_ACCESS_TOKEN |-> NoToken, CTRADER_REFRESH_TOKEN |-> NoToken ]
  /\ pc' = "exited"
  /\ UNCHANGED << lf, rt, sx, p8, store, ga, accountId, accessToken, refreshToken, sock, socks, recvBuffer,
                  timers, prompts, log, frames, nAsync, nFrames >>

\* the exchange was answered with a non-OK status (lines 39-42)
RefreshNotOk ==
  /\ pc = "refreshing"
  /\ console' = Append(console, Line("Token refresh failed", ""))
  /\ pc' = "exited"
  /\ UNCHANGED << lf, rt, sx, p8, store, ga, accountId, accessToken, refreshToken, env, sock, socks, recvBuffer, timers,
                  prompts, log, frames, nAsync, nFrames >>

(***************************************************************************)
(* connect, lines 164-201.                                                 *)
(***************************************************************************)
\* state: "connecting", "open" or "closed"; wire: the bytes in flight from
\* the gateway; rcvd: the bytes its 'data' events have delivered;
\* answered: how many of its requests the gateway has answered
NewSocket == [ state |-> "connecting", wire |-> <<>>, rcvd |-> <<>>, answered |-> 0 ]

\* the body of connect(): tls.connect returns a socket that is assigned to
\* sock; the handlers are registered on it
connect ==
  /\ socks' = Append(socks, NewSocket)
  /\ sock' = Len(socks) + 1

\* startTickStream, lines 63-204: the protos are loaded, the callbacks
\* registered, and connect() is called
StartTickStream ==
  /\ pc = "loading"
  /\ pc' = "running"
  /\ connect
  /\ UNCHANGED << lf, rt, sx, p8, store, ga, accountId, accessToken, refreshToken, env, recvBuffer, timers, prompts, log,
                  console, frames, nAsync, nFrames >>

\* a reconnect timer fires: setTimeout(connect, 5000), line 200
TimerFires ==
  /\ pc = "running"
  /\ timers > 0
  /\ Len(socks) < MaxConn
  /\ timers' = timers - 1
  /\ connect
  /\ UNCHANGED << lf, rt, sx, p8, store, ga, accountId, pc, accessToken, refreshToken, env, recvBuffer, prompts, log,
                  console, frames, nAsync, nFrames >>

\* the TLS handshake of socket s ends: the callback of tls.connect,
\* lines 165-168
Connected(s) ==
  /\ pc = "running"
  /\ socks[s].state = "connecting"
  /\ LET st == send([Handler(recvBuffer) EXCEPT !.console = Append(@, Line("Connected", ""))],
                    sock, "VersionReq", 0, 0)
     IN  /\ log' = st.log
         /\ console' = st.console
  /\ socks' = [ socks EXCEPT ![s].state = "open" ]
  /\ UNCHANGED << lf, rt, sx, p8, store, ga, accountId, pc, accessToken, refreshToken, env, sock, recvBuffer, timers, prompts,
                  frames, nAsync, nFrames >>

\* sock.on('error'), line 199
OnError(st) ==
  [ st EXCEPT !.console = Append(@, Line("Socket error", "")) ]

\* sock.on('close'), line 200; the timer it sets is counted by the action
OnClose(st) ==
  [ st EXCEPT !.console = Append(@, Line("Closed, reconnecting in 5s", "")) ]

\* a socket whose 'error' handler sets a timer as well
SocketFailsSchedulesTwice(s) ==
  /\ pc = "running"
  /\ socks[s].state \in {"connecting", "open"}
  /\ socks' = [ socks EXCEPT ![s].state = "closed", ![s].wire = <<>> ]
  /\ console' = OnClose(OnError(Handler(recvBuffer))).console
  /\ timers' = timers + 2
  /\ UNCHANGED << lf, rt, sx, p8, store, ga, accountId, pc, accessToken, refreshToken, env, sock, recvBuffer, prompts,
                  log, frames, nAsync, nFrames >>

\* a socket that reports an error and sets the timer but is left open
SocketFailsAndStaysOpen(s) ==
  /\ pc = "running"
  /\ socks[s].state \in {"connecting", "open"}
  /\ console' = OnClose(OnError(Handler(recvBuffer))).console
  /\ timers' = timers + 1
  /\ UNCHANGED << lf, rt, sx, p8, store, ga, accountId, pc, accessToken, refreshToken, env, sock, socks, recvBuffer, prompts,
                  log, frames, nAsync, nFrames >>

\* a socket whose failure sets no timer
SocketFailsWithoutTimer(s) ==
  /\ pc = "running"
  /\ socks[s].state \in {"connecting", "open"}
  /\ socks' = [ socks EXCEPT ![s].state = "closed", ![s].wire = <<>> ]
  /\ console' = OnClose(OnError(Handler(recvBuffer))).console
  /\ UNCHANGED << lf, rt, sx, p8, store, ga, accountId, pc, accessToken, refreshToken, env, sock, recvBuffer, prompts,
                  log, frames, nAsync, nFrames, timers >>

\* the connection attempt fails or the connection breaks: the socket is
\* destroyed and emits 'error' and then 'close' in the same tick, so both
\* handlers run back to back
SocketFails(s) ==
  /\ pc = "running"
  /\ socks[s].state \in {"connecting", "open"}
  /\ socks' = [ socks EXCEPT ![s].state = "closed", ![s].wire = <<>> ]
  /\ console' = OnClose(OnError(Handler(recvBuffer))).console
  /\ timers' = timers + 1
  /\ UNCHANGED << lf, rt, sx, p8, store, ga, accountId, pc, accessToken, refreshToken, env, sock, recvBuffer, prompts,
                  log, frames, nAsync, nFrames >>

\* the gateway ends the connection: the socket emits 'close' only
SocketClose(s) ==
  /\ pc = "running"
  /\ socks[s].state = "open"
  /\ socks' = [ socks EXCEPT ![s].state = "closed", ![s].wire = <<>> ]
  /\ console' = OnClose(Handler(recvBuffer)).console
  /\ timers' = timers + 1
  /\ UNCHANGED << lf, rt, sx, p8, store, ga, accountId, pc, accessToken, refreshToken, env, sock, recvBuffer, prompts,
                  log, frames, nAsync, nFrames >>

\* sock.on('data'), lines 170-197: the first n bytes in flight arrive as
\* one chunk.  An exception thrown by ProtoMessage.decode is caught by
\* nobody and ends the process.
Data(s, n) ==
  /\ pc = "running"
  /\ socks[s].state = "open"
  /\ n \in 1..Len(socks[s].wire)
  /\ LET chunk == SubSeq(socks[s].wire, 1, n)
         st    == FrameLoop(Handler(BufferConcat(recvBuffer, chunk)), s)
     IN  /\ recvBuffer' = st.buf
         /\ log' = st.log
         /\ console' = st.console
         /\ prompts' = st.prompts
         /\ frames' = st.frames
         /\ pc' = IF st.crashed THEN "crashed" ELSE pc
  /\ socks' = [ socks EXCEPT ![s].wire = SubSeq(@, n + 1, Len(@)),
                             ![s].rcvd = @ \o SubSeq(socks[s].wire, 1, n) ]
  /\ UNCHANGED << lf, rt, sx, p8, store, ga, accountId, accessToken, refreshToken, env, sock, timers, nAsync, nFrames >>

\* an answer after which the prompt stays open
AnswerPromptAsksAgain(i, a) ==
  /\ pc = "running"
  /\ i \in 1..Len(prompts)
  /\ LET all  == prompts[i].all
         sym  == ToUpperCase(a)
         m    == FindSymbol(all, sym)
         rest == [ j \in 1..(Len(prompts) - 1) |-> IF j < i THEN prompts[j] ELSE prompts[j + 1] ]
         st0  == [ Handler(recvBuffer) EXCEPT !.prompts = prompts ]
         st   == IF m = 0
                   THEN [ st0 EXCEPT !.console = Append(@, Line("not found", a)) ]
                   ELSE send(st0, sock, "SubscribeSpotsReq", all[m], prompts[i].cause)
     IN  /\ log' = st.log
         /\ console' = st.console
         /\ prompts' = st.prompts
  /\ UNCHANGED << lf, rt, sx, p8, store, ga, accountId, pc, accessToken, refreshToken, env, sock, socks, recvBuffer, timers,
                  frames, nAsync, nFrames >>

\* the operator answers the i-th pending prompt: the rest of the
\* 'symbols_list' handler, lines 140-148
AnswerPrompt(i, a) ==
  /\ pc = "running"
  /\ i \in 1..Len(prompts)
  /\ LET all  == prompts[i].all
         sym  == ToUpperCase(a)
         m    == FindSymbol(all, sym)
         rest == [ j \in 1..(Len(prompts) - 1) |-> IF j < i THEN prompts[j] ELSE prompts[j + 1] ]
         st0  == [ Handler(recvBuffer) EXCEPT !.prompts = rest ]
         st   == IF m = 0
                   THEN [ st0 EXCEPT !.console = Append(@, Line("not found", a)) ]
                   ELSE send(st0, sock, "SubscribeSpotsReq", all[m], prompts[i].cause)
     IN  /\ log' = st.log
         /\ console' = st.console
         /\ prompts' = st.prompts
  /\ UNCHANGED << lf, rt, sx, p8, store, ga, accountId, pc, accessToken, refreshToken, env, sock, socks, recvBuffer, timers,
                  frames, nAsync, nFrames >>

(***************************************************************************)
(* The gateway.                                                            *)
(***************************************************************************)
CanCarry(s, body) ==
  /\ socks[s].state = "open"
  /\ nFrames < MaxFrames
  /\ Len(socks[s].wire) + 4 + Len(body) <= MaxWire

\* the gateway answers the oldest request of socket s it has not answered
GatewayReplies(s, m) ==
  /\ pc = "running"
  /\ socks[s].answered < Len(Written(s))
  /\ m \in Replies(Written(s)[socks[s].answered + 1].k)
  /\ LET body == EncodeEnvelope(m.pt, m.payload) IN
       /\ CanCarry(s, body)
       /\ socks' = [ socks EXCEPT ![s].wire = @ \o FrameBytes(body),
                                  ![s].answered = @ + 1 ]
  /\ nFrames' = nFrames + 1
  /\ UNCHANGED << lf, rt, sx, p8, store, ga, accountId, pc, accessToken, refreshToken, env, sock, recvBuffer, timers, prompts,
                  log, console, frames, nAsync >>

\* the gateway sends a frame that answers nothing
GatewaySends(s, body) ==
  /\ pc = "running"
  /\ nAsync < MaxAsync
  /\ CanCarry(s, body)
  /\ socks' = [ socks EXCEPT ![s].wire = @ \o FrameBytes(body) ]
  /\ nAsync' = nAsync + 1
  /\ nFrames' = nFrames + 1
  /\ UNCHANGED << lf, rt, sx, p8, store, ga, accountId, pc, accessToken, refreshToken, env, sock, recvBuffer, timers, prompts,
                  log, console, frames >>

\* lengths a peer may declare that no frame of the protocol has: 2^30
\* bytes (the prefix 40 00 00 00)
OversizeLengths == { 1073741824 }

\* the gateway sends the length prefix of a frame of len bytes, of whose
\* body nothing has followed yet
GatewayDeclares(s, len) ==
  /\ pc = "running"
  /\ nAsync < MaxAsync
  /\ socks[s].state = "open"
  /\ nFrames < MaxFrames
  /\ Len(socks[s].wire) + 4 <= MaxWire
  /\ socks' = [ socks EXCEPT ![s].wire = @ \o WriteUInt32BE(len) ]
  /\ nAsync' = nAsync + 1
  /\ nFrames' = nFrames + 1
  /\ UNCHANGED << lf, rt, sx, p8, store, ga, accountId, pc, accessToken, refreshToken, env, sock, recvBuffer, timers,
                  prompts, log, console, frames >>

(***************************************************************************)
(* The specification.                                                      *)
(***************************************************************************)
Next ==
  \/ RefreshCalled
  \/ \E data \in RefreshReplies : RefreshOk(data)
  \/ \E data \in RefreshReplies : \E n \in 0..1 : RefreshKilled(data, n)
  \/ RefreshNotOk
  \/ StartTickStream
  \/ TimerFires
  \/ \E s \in 1..Len(socks) : Connected(s)
  \/ \E s \in 1..Len(socks) : SocketFails(s)
  \/ \E s \in 1..Len(socks) : SocketClose(s)
  \/ \E s \in 1..Len(socks) : \E n \in 1..MaxWire : Data(s, n)
  \/ \E i \in 1..Len(prompts) : \E a \in Answers : AnswerPrompt(i, a)
  \/ \E s \in 1..Len(socks) : \E req \in ReqKinds : \E m \in Replies(req) : GatewayReplies(s, m)
  \/ \E s \in 1..Len(socks) : \E body \in AsyncBodies : GatewaySends(s, body)
  \/ \E s \in 1..Len(socks) : \E len \in OversizeLengths : GatewayDeclares(s, len)

(***************************************************************************)
(* The draft src/nppBackup/ctrader-live-feed.mjs.2025-05-22_175906.bak:    *)
(* startLiveFeed with ensureValidToken, a net socket whose 'data' handler  *)
(* parses each chunk on its own, the refresh-and-reconnect on the session  *)
(* status AuthenticationFailed, and the 5 second reconnect of 'close'.     *)
(* Its whole state is the record lf.                                       *)
(***************************************************************************)
\* sockets the draft opens in one run
LfMaxConn == 3
\* frames the gateway sends to the draft in one run
LfMaxFrames == 1

\* PayloadType.StreamingSessionStatusNotification, .StreamingMarketDataSnapshot
\* and .StreamingMarketDataUpdate (lines 216, 240, 241)
LF_STATUS == 50
LF_SNAPSHOT == 51
LF_UPDATE == 52

\* status.status, one byte of payload here (lines 220, 229)
LF_AUTHENTICATED == 1
LF_AUTHENTICATION_FAILED == 2

\* state: "connecting", "open", "destroyed" (socket.destroy() called, the
\* 'close' event still to come) or "closed"; out: what was written to it;
\* requested: the client itself destroyed it; reconnect: its 'close'
\* handler has set the reconnect timer
LfNewSocket ==
  [ state |-> "connecting", wire |-> <<>>, out |-> <<>>, requested |-> FALSE,
    reconnect |-> FALSE ]

LfInit(expired) ==
  [ started |-> FALSE,      \* line 292 has called startLiveFeed()
    exited  |-> FALSE,      \* process.exit(1) was called
    token   |-> OldToken,   \* CTRADER_ACCESS_TOKEN
    refresh |-> OldToken,   \* CTRADER_REFRESH_TOKEN
    expired |-> expired,    \* Date.now() > CTRADER_TOKEN_EXPIRES_AT
    env     |-> [ CTRADER_ACCESS_TOKEN |-> OldToken, CTRADER_REFRESH_TOKEN |-> OldToken ],
    pending |-> <<>>,       \* refresh exchanges in flight, each with what follows it
    socks   |-> <<>>,       \* the sockets net.connect has returned
    timers  |-> 0,          \* pending setTimeout(startLiveFeed, 5000)
    console |-> <<>>,
    nFrames |-> 0 ]

LfSay(l, m) == [ l EXCEPT !.console = Append(@, Line(m, "")) ]

\* net.connect and the registration of the handlers, lines 182-271
LfConnect(l) == [ l EXCEPT !.socks = Append(@, LfNewSocket) ]

\* a startLiveFeed that opens the socket without looking at the token
LfStartLiveFeedUnchecked(l) == LfConnect(LfSay(l, "Access token valid"))

\* startLiveFeed up to its first suspension, lines 179-182, with
\* ensureValidToken, lines 122-130: a refresh is awaited when the token is
\* missing or expired, else the socket is opened at once
LfStartLiveFeed(l) ==
  IF l.token = NoToken \/ l.expired
    THEN [ LfSay(l, "Access token missing or expired, refreshing") EXCEPT
             !.pending = Append(@, "connect") ]
    ELSE LfConnect(LfSay(l, "Access token valid"))

\* sendMessage, lines 134-160
LfSendMessage(l, s, typeName) ==
  IF l.socks[s].state \in {"connecting", "open"}
    THEN [ l EXCEPT !.socks[s].out = Append(@, typeName) ]
    ELSE l

\* socket.destroy(): nothing happens to a socket that is destroyed already
LfDestroy(l, s) ==
  IF l.socks[s].state \in {"connecting", "open"}
    THEN [ l EXCEPT !.socks[s].state = "destroyed", !.socks[s].wire = <<>>,
                    !.socks[s].requested = TRUE ]
    ELSE l

\* case StreamingSessionStatusNotification, lines 216-239
LfOnStatus(l, s, status) ==
  LET l1 == LfSay(l, "Session status")
      l2 == IF status = LF_AUTHENTICATION_FAILED
              THEN [ LfDestroy(LfSay(l1, "Authentication failed, refreshing token and reconnecting"), s)
                       EXCEPT !.pending = Append(@, "startLiveFeed") ]
              ELSE l1
  IN  IF status = LF_AUTHENTICATED
        THEN LfSendMessage(l2, s, "SubscriptionStreamingMarketDataRequest")
        ELSE l2

\* switch (streamingMessage.payloadType), lines 215-256
LfDispatch(l, s, wrap) ==
  CASE wrap.payloadType = LF_STATUS -> LfOnStatus(l, s, ErrorCodeOf(wrap.payload))
    [] wrap.payloadType \in {LF_SNAPSHOT, LF_UPDATE} -> LfSay(l, "Price update")
    [] OTHER -> l

\* the loop of the 'data' handler, lines 204-260, over one chunk: offset
\* counts the bytes consumed.  readUInt32BE past the end and a body that
\* does not decode throw; the catch logs and the chunk is given up.
RECURSIVE LfParse(_, _, _, _)
LfParse(l, s, data, offset) ==
  IF offset >= Len(data) THEN l
  ELSE IF offset + 4 > Len(data) THEN LfSay(l, "Failed to process incoming data")
  ELSE LET length    == ReadUInt32BE(SubSeq(data, offset + 1, offset + 4))
           last      == IF offset + 4 + length < Len(data) THEN offset + 4 + length ELSE Len(data)
           msgBuffer == SubSeq(data, offset + 5, last)
       IN  IF ~Decodable(msgBuffer)
             THEN LfSay(l, "Failed to process incoming data")
             ELSE LfParse(LfDispatch(l, s, DecodeEnvelope(msgBuffer)), s, data, offset + 4 + length)

LfBodies ==
  { <<LF_STATUS, LF_AUTHENTICATED>>, <<LF_STATUS, LF_AUTHENTICATION_FAILED>>,
    <<LF_UPDATE>>, <<PT_UNRECOGNIZED>> }

\* line 292: the script calls startLiveFeed()
LfStart ==
  /\ ~lf.started
  /\ lf' = LfStartLiveFeed([ lf EXCEPT !.started = TRUE ])
  /\ UNCHANGED << mainVars, rt, sx, p8, store, ga >>

\* the i-th refresh exchange in flight succeeds, lines 78-91, and what
\* waited for it goes on: the rest of startLiveFeed, or startLiveFeed
\* from its start (line 223)
LfRefreshOk(i) ==
  /\ lf.started /\ ~lf.exited
  /\ i \in 1..Len(lf.pending)
  /\ Len(lf.socks) < LfMaxConn
  /\ LET rest == [ j \in 1..(Len(lf.pending) - 1) |->
                     IF j < i THEN lf.pending[j] ELSE lf.pending[j + 1] ]
         l1   == [ LfSay(lf, "Access token refreshed") EXCEPT
                     !.token = NewToken, !.refresh = NewToken, !.expired = FALSE,
                     !.env = [ CTRADER_ACCESS_TOKEN |-> NewToken, CTRADER_REFRESH_TOKEN |-> NewToken ],
                     !.pending = rest ]
     IN  lf' = IF lf.pending[i] = "connect" THEN LfConnect(l1) ELSE LfStartLiveFeed(l1)
  /\ UNCHANGED << mainVars, rt, sx, p8, store, ga >>

\* a refresh exchange fails, lines 93-96
LfRefreshFails(i) ==
  /\ lf.started /\ ~lf.exited
  /\ i \in 1..Len(lf.pending)
  /\ lf' = [ LfSay(lf, "Token refresh failed") EXCEPT !.exited = TRUE ]
  /\ UNCHANGED << mainVars, rt, sx, p8, store, ga >>

\* the access token's expiry time passes
LfTokenExpires ==
  /\ lf.started /\ ~lf.exited
  /\ ~lf.expired
  /\ lf' = [ lf EXCEPT !.expired = TRUE ]
  /\ UNCHANGED << mainVars, rt, sx, p8, store, ga >>

\* socket.on('connect'), lines 184-201
LfConnected(s) ==
  /\ ~lf.exited
  /\ lf.socks[s].state = "connecting"
  /\ lf' = [ LfSay(lf, "Connected") EXCEPT
               !.socks[s].state = "open",
               !.socks[s].out = << "0x1", "StreamingCreateSessionRequest", "AuthenticateRequest" >> ]
  /\ UNCHANGED << mainVars, rt, sx, p8, store, ga >>

\* socket.on('close'), lines 263-266
LfOnClose(l, s) ==
  [ LfSay(l, "Connection closed, reconnecting in 5s") EXCEPT
      !.socks[s].state = "closed", !.socks[s].wire = <<>>,
      !.socks[s].reconnect = TRUE, !.timers = @ + 1 ]

\* socket.on('error'), lines 268-271: the socket that reports an error is
\* destroyed already, so that socket.destroy() changes nothing
LfOnError(l, s) == LfSay(l, "Socket error")

\* the connection attempt fails or the connection breaks: 'error', then
\* 'close'
LfSocketFails(s) ==
  /\ ~lf.exited
  /\ lf.socks[s].state \in {"connecting", "open"}
  /\ lf' = LfOnClose(LfOnError(lf, s), s)
  /\ UNCHANGED << mainVars, rt, sx, p8, store, ga >>

\* the 'close' event of a socket that the gateway has ended or that
\* socket.destroy() has destroyed
LfSocketClose(s) ==
  /\ ~lf.exited
  /\ lf.socks[s].state \in {"open", "destroyed"}
  /\ lf' = LfOnClose(lf, s)
  /\ UNCHANGED << mainVars, rt, sx, p8, store, ga >>

\* a reconnect timer fires and calls startLiveFeed (line 265)
LfTimerFires ==
  /\ ~lf.exited
  /\ lf.timers > 0
  /\ Len(lf.socks) < LfMaxConn
  /\ lf' = LfStartLiveFeed([ lf EXCEPT !.timers = @ - 1 ])
  /\ UNCHANGED << mainVars, rt, sx, p8, store, ga >>

\* socket.on('data'), lines 203-261: the first n bytes in flight arrive
LfData(s, n) ==
  /\ ~lf.exited
  /\ lf.socks[s].state = "open"
  /\ n \in 1..Len(lf.socks[s].wire)
  /\ LET chunk == SubSeq(lf.socks[s].wire, 1, n)
         l1    == [ lf EXCEPT !.socks[s].wire = SubSeq(@, n + 1, Len(@)) ]
     IN  lf' = LfParse(l1, s, chunk, 0)
  /\ UNCHANGED << mainVars, rt, sx, p8, store, ga >>

\* the gateway sends a frame
LfGatewaySends(s, body) ==
  /\ ~lf.exited
  /\ lf.socks[s].state = "open"
  /\ lf.nFrames < LfMaxFrames
  /\ Len(lf.socks[s].wire) + 4 + Len(body) <= MaxWire
  /\ lf' = [ lf EXCEPT !.socks[s].wire = @ \o FrameBytes(body), !.nFrames = @ + 1 ]
  /\ UNCHANGED << mainVars, rt, sx, p8, store, ga >>

NextDraft175906 ==
  \/ LfStart
  \/ \E i \in 1..Len(lf.pending) : LfRefreshOk(i)
  \/ \E i \in 1..Len(lf.pending) : LfRefreshFails(i)
  \/ LfTokenExpires
  \/ LfTimerFires
  \/ \E s \in 1..Len(lf.socks) : LfConnected(s)
  \/ \E s \in 1..Len(lf.socks) : LfSocketFails(s)
  \/ \E s \in 1..Len(lf.socks) : LfSocketClose(s)
  \/ \E s \in 1..Len(lf.socks) : \E n \in 1..MaxWire : LfData(s, n)
  \/ \E s \in 1..Len(lf.socks) : \E body \in LfBodies : LfGatewaySends(s, body)

(***************************************************************************)
(* The draft src/nppBackup/ctrader-live-feed.mjs.2025-05-22_193408.bak:    *)
(* refreshAccessToken(maxRetries = 5) tries the exchange in a loop, sleeps *)
(* min(5000 * attempt, 30000) ms after a failure and throws after the      *)
(* last one; line 248 awaits it at top level, so that the throw ends the   *)
(* process with the error printed.  Its whole state is the record rt.      *)
(***************************************************************************)
\* the default of the parameter maxRetries, line 55
maxRetries == 5

\* const delay = Math.min(5000 * attempt, 30000), line 83
RtDelay(attempt) == IF 5000 * attempt < 30000 THEN 5000 * attempt ELSE 30000

\* a loop that never gives up
RtNeverExhausted(attempt) == FALSE

\* if (attempt === maxRetries) throw ..., line 85
RtExhausted(attempt) == attempt = maxRetries

\* what makes an attempt fail: fetch rejects (line 58), the status is not
\* OK (line 69), res.json() rejects (line 70), updateEnv throws (line 72)
RtFailures == {"fetch", "HTTP", "json", "updateEnv"}

RtInit ==
  [ phase   |-> "idle",     \* "idle", "fetching", "sleeping", "done" or "failed"
    attempt |-> 0,          \* the loop variable
    fetches |-> 0,          \* exchanges posted to the token endpoint
    slept   |-> <<>>,       \* the delays waited, in ms
    token   |-> OldToken,   \* CTRADER_ACCESS_TOKEN
    refresh |-> OldToken,   \* CTRADER_REFRESH_TOKEN
    env     |-> [ CTRADER_ACCESS_TOKEN |-> OldToken, CTRADER_REFRESH_TOKEN |-> OldToken ],
    console |-> <<>> ]

\* updateEnv, lines 41-52: the lines of the given keys are rewritten
updateEnv(e, newValues) ==
  [ k \in DOMAIN e |-> IF k \in DOMAIN newValues THEN newValues[k] ELSE e[k] ]

\* the head of the for loop, line 56, entered with the value attempt: the
\* exchange is posted, or the loop ends and the function returns
RtLoop(r, attempt) ==
  IF attempt <= maxRetries
    THEN [ r EXCEPT !.attempt = attempt, !.phase = "fetching", !.fetches = @ + 1 ]
    ELSE [ r EXCEPT !.attempt = attempt, !.phase = "done" ]

\* line 248: await refreshAccessToken()
RtCalled ==
  /\ rt.phase = "idle"
  /\ rt' = RtLoop(rt, 1)
  /\ UNCHANGED << mainVars, lf, sx, p8, store, ga >>

\* the exchange succeeds, lines 70-81
RtRefreshOk(data) ==
  /\ rt.phase = "fetching"
  /\ rt' = [ rt EXCEPT
               !.env     = updateEnv(@, [ CTRADER_ACCESS_TOKEN  |-> data.access_token,
                                          CTRADER_REFRESH_TOKEN |-> data.refresh_token ]),
               !.token   = data.access_token,
               !.refresh = data.refresh_token,
               !.console = Append(@, Line("Access token refreshed successfully", "")),
               !.phase   = "done" ]
  /\ UNCHANGED << mainVars, lf, sx, p8, store, ga >>

\* the attempt fails, lines 82-87: the catch warns, and throws after the
\* last attempt or else starts the delay
RtRefreshFails(why) ==
  /\ rt.phase = "fetching"
  /\ LET r1 == [ rt EXCEPT !.console = Append(@, Line("Token refresh failed", why)) ]
     IN  rt' = IF RtExhausted(rt.attempt)
                 THEN [ r1 EXCEPT !.console = Append(@, Line("Max retries exceeded for token refresh", "")),
                                  !.phase = "failed" ]
                 ELSE [ r1 EXCEPT !.slept = Append(@, RtDelay(rt.attempt)),
                                  !.phase = "sleeping" ]
  /\ UNCHANGED << mainVars, lf, sx, p8, store, ga >>

\* the delay of line 86 is over: attempt++ and the loop goes on
RtWakes ==
  /\ rt.phase = "sleeping"
  /\ rt' = RtLoop(rt, rt.attempt + 1)
  /\ UNCHANGED << mainVars, lf, sx, p8, store, ga >>

NextDraft193408 ==
  \/ RtCalled
  \/ \E data \in RefreshReplies : RtRefreshOk(data)
  \/ \E why \in RtFailures : RtRefreshFails(why)
  \/ RtWakes

(***************************************************************************)
(* The draft src/unnamed/part_008: one connection, a handshake driven by   *)
(* the responses, two flags that guard the answer to VERSION_RES.  The     *)
(* process ends when the socket reports an error or closes.  Its state is  *)
(* the record p8.                                                          *)
(***************************************************************************)
\* frames the gateway sends in one run
P8MaxFrames == 3

\* discriminators of the account list, as the others minus 2100
PROTO_OA_GET_ACCOUNTS_BY_ACCESS_TOKEN_REQ == 49
PROTO_OA_GET_ACCOUNTS_BY_ACCESS_TOKEN_RES == 50

\* named: the payload-type enum of the .proto files, which are not part of
\* the sources, has the names PROTO_OA_GET_ACCOUNT_LIST_BY_ACCESS_TOKEN_REQ
\* and _RES the draft uses (lines 44-45, 114); encodes: the library encodes
\* a SubscribeSpotsReq whose ctidTraderAccountId is undefined (line 128)
P8Init(named, encodes) ==
  [ run             |-> "running",  \* or "crashed", "exit0", "exit1"
    named           |-> named,
    encodes         |-> encodes,
    state           |-> "connecting",
    wire            |-> <<>>,       \* bytes in flight from the gateway
    recvBuf         |-> <<>>,       \* line 69
    versionAcked    |-> FALSE,      \* line 51
    applicationSent |-> FALSE,      \* line 52
    log             |-> <<>>,       \* requests written and frames dispatched
    console         |-> <<>>,
    nFrames         |-> 0 ]

P8Say(l, m) == [ l EXCEPT !.console = Append(@, Line(m, "")) ]

\* sendMessage, lines 55-66; the Error of line 58, like one thrown by the
\* encoder, is caught by nobody
P8SendMessage(l, typeName, cause) ==
  IF typeName = "ProtoOAGetAccountListByAccessTokenReq" /\ ~l.named
    THEN [ l EXCEPT !.run = "crashed" ]
  ELSE IF typeName = "ProtoOASubscribeSpotsReq" /\ ~l.encodes
    THEN [ l EXCEPT !.run = "crashed" ]
  ELSE [ l EXCEPT !.console = Append(@, Line("Sending", typeName)),
                  !.log = Append(@, Entry(1, "tx", typeName, 0, cause)) ]

\* a VERSION_RES case without the flags
P8OnVersionResUnguarded(l, me) ==
  P8SendMessage(P8Say(l, "Version handshake complete"), "ProtoOAApplicationAuthReq", me)

\* case 'VERSION_RES', lines 94-106
P8OnVersionRes(l, me) ==
  IF ~l.versionAcked
    THEN LET l1 == P8Say([ l EXCEPT !.versionAcked = TRUE ], "Version handshake complete")
         IN  IF ~l1.applicationSent
               THEN P8SendMessage([ l1 EXCEPT !.applicationSent = TRUE ],
                                  "ProtoOAApplicationAuthReq", me)
               ELSE l1
    ELSE l

\* the name of the event a discriminator stands for: enumKey, lines 89-91;
\* "" when valuesById has no such value (line 90) or the switch no such case
P8EnumKey(l, pt) ==
  CASE pt = PROTO_OA_VERSION_RES          -> "VERSION_RES"
    [] pt = PROTO_OA_APPLICATION_AUTH_RES -> "APPLICATION_AUTH_RES"
    [] pt = PROTO_OA_GET_ACCOUNTS_BY_ACCESS_TOKEN_RES ->
         IF l.named THEN "GET_ACCOUNT_LIST_BY_ACCESS_TOKEN_RES" ELSE ""
    [] pt = PROTO_OA_ACCOUNT_AUTH_RES     -> "ACCOUNT_AUTH_RES"
    [] pt = PROTO_OA_SPOT_EVENT           -> "SPOT_EVENT"
    [] pt = PROTO_OA_ERROR_RES            -> "ERROR_RES"
    [] OTHER                              -> ""

\* the switch, lines 93-151.  The first byte of an account list's payload
\* is the number of its accounts; ga.ctidTraderAccount[0] of an empty list
\* is undefined and line 117 throws on it.
P8Dispatch(l, wrap) ==
  LET ev == P8EnumKey(l, wrap.payloadType)
      l1 == [ l EXCEPT !.log = Append(@, Entry(1, "rx", ev, 0, 0)) ]
      me == Len(l1.log)
  IN  CASE ev = "VERSION_RES"          -> P8OnVersionRes(l1, me)
        [] ev = "APPLICATION_AUTH_RES" ->
             P8SendMessage(P8Say(l1, "Application Authenticated"),
                           "ProtoOAGetAccountListByAccessTokenReq", me)
        [] ev = "GET_ACCOUNT_LIST_BY_ACCESS_TOKEN_RES" ->
             IF ErrorCodeOf(wrap.payload) = 0
               THEN [ l1 EXCEPT !.run = "crashed" ]
               ELSE P8SendMessage(P8Say(l1, "Fetched accountId"), "ProtoOAAccountAuthReq", me)
        [] ev = "ACCOUNT_AUTH_RES"     ->
             P8SendMessage(P8Say(l1, "Account Authenticated"), "ProtoOASubscribeSpotsReq", me)
        [] ev = "SPOT_EVENT"           -> P8Say(l1, "Spot")
        [] ev = "ERROR_RES"            -> P8Say(l1, "Server Error")
        [] OTHER                       -> l1

\* the loop of the 'data' handler, lines 80-153; an exception ends the
\* handler and, caught by nobody, the process
RECURSIVE P8FrameLoop(_)
P8FrameLoop(l) ==
  IF l.run # "running" \/ Len(l.recvBuf) < 4 THEN l
  ELSE LET msgLen == ReadUInt32BE(l.recvBuf) IN
       IF Len(l.recvBuf) < 4 + msgLen THEN l
       ELSE LET msgBuf == SubSeq(l.recvBuf, 5, 4 + msgLen)
                l1     == [ l EXCEPT !.recvBuf = SubSeq(@, 5 + msgLen, Len(@)) ]
            IN  IF ~Decodable(msgBuf)
                  THEN [ l1 EXCEPT !.run = "crashed" ]
                  ELSE P8FrameLoop(P8Dispatch(l1, DecodeEnvelope(msgBuf)))

P8Bodies ==
  { EncodeEnvelope(PROTO_OA_VERSION_RES, <<>>),
    EncodeEnvelope(PROTO_OA_APPLICATION_AUTH_RES, <<>>),
    EncodeEnvelope(PROTO_OA_GET_ACCOUNTS_BY_ACCESS_TOKEN_RES, <<0>>),
    EncodeEnvelope(PROTO_OA_GET_ACCOUNTS_BY_ACCESS_TOKEN_RES, <<1>>),
    EncodeEnvelope(PROTO_OA_ACCOUNT_AUTH_RES, <<>>),
    EncodeEnvelope(PROTO_OA_SPOT_EVENT, <<1>>),
    EncodeEnvelope(PROTO_OA_ERROR_RES, <<ERR_OTHER>>),
    EncodeEnvelope(PT_UNRECOGNIZED, <<>>),
    <<>> }

\* the callback of tls.connect, lines 72-78
P8Connected ==
  /\ p8.run = "running"
  /\ p8.state = "connecting"
  /\ p8' = P8SendMessage([ P8Say(p8, "Connected") EXCEPT !.state = "open" ],
                         "ProtoOAVersionReq", 0)
  /\ UNCHANGED << mainVars, lf, rt, sx, store, ga >>

\* socket.on('data'), lines 80-153: the first n bytes in flight arrive
P8Data(n) ==
  /\ p8.run = "running"
  /\ p8.state = "open"
  /\ n \in 1..Len(p8.wire)
  /\ p8' = P8FrameLoop([ p8 EXCEPT !.recvBuf = @ \o SubSeq(p8.wire, 1, n),
                                   !.wire = SubSeq(@, n + 1, Len(@)) ])
  /\ UNCHANGED << mainVars, lf, rt, sx, store, ga >>

\* the gateway sends a frame
P8GatewaySends(body) ==
  /\ p8.run = "running"
  /\ p8.state = "open"
  /\ p8.nFrames < P8MaxFrames
  /\ Len(p8.wire) + 4 + Len(body) <= MaxWire
  /\ p8' = [ p8 EXCEPT !.wire = @ \o FrameBytes(body), !.nFrames = @ + 1 ]
  /\ UNCHANGED << mainVars, lf, rt, sx, store, ga >>

\* socket.on('error'), lines 155-158
P8SocketFails ==
  /\ p8.run = "running"
  /\ p8.state \in {"connecting", "open"}
  /\ p8' = [ P8Say(p8, "Socket error") EXCEPT !.state = "closed", !.run = "exit1" ]
  /\ UNCHANGED << mainVars, lf, rt, sx, store, ga >>

\* socket.on('close'), lines 160-163
P8SocketClose ==
  /\ p8.run = "running"
  /\ p8.state = "open"
  /\ p8' = [ P8Say(p8, "Connection closed") EXCEPT !.state = "closed", !.run = "exit0" ]
  /\ UNCHANGED << mainVars, lf, rt, sx, store, ga >>

NextPart008 ==
  \/ P8Connected
  \/ \E n \in 1..MaxWire : P8Data(n)
  \/ \E body \in P8Bodies : P8GatewaySends(body)
  \/ P8SocketFails
  \/ P8SocketClose

(***************************************************************************)
(* refreshAccessToken of src/ctrader-live-feed.mjs key by key: the five    *)
(* lines of .env, the five variables of lines 15-21, and the rewrite of    *)
(* lines 45-57.  Its state is the record store.                           *)
(***************************************************************************)
EnvKeys ==
  { "CTRADER_CLIENT_ID", "CTRADER_CLIENT_SECRET", "CTRADER_ACCESS_TOKEN",
    "CTRADER_REFRESH_TOKEN", "CTRADER_ACCOUNT_ID" }

\* a .env file: the value of the line of each key, NoToken when the file
\* has no such line
Files == [ EnvKeys -> {NoToken, OldToken} ]

StFullFile == [ k \in EnvKeys |-> OldToken ]

\* dotenv.config() and lines 15-21: the variables hold what the file
\* holds (undefined, here NoToken, for a key without a line); nothing has
\* been posted yet
StInit(file) ==
  [ phase   |-> "start",   \* or "refreshing", "done", "exited"
    file0   |-> file,      \* .env as it was at the start
    file    |-> file,      \* .env
    mem     |-> file,      \* the variables of lines 15-21
    data    |-> [ access_token |-> NoToken, refresh_token |-> NoToken ],
    console |-> <<>> ]

\* what a 200 response of the token endpoint may carry: each token or none
RefreshBodies == [ access_token : {NoToken, NewToken}, refresh_token : {NoToken, NewToken} ]

\* lines 46-55: update(k, v) for each of the five keys, joined
NewEnv(file, mem, data) ==
  [ k \in EnvKeys |->
      CASE k = "CTRADER_ACCESS_TOKEN"  -> Update(file[k], data.access_token)
        [] k = "CTRADER_REFRESH_TOKEN" -> Update(file[k], data.refresh_token)
        [] OTHER                       -> Update(file[k], mem[k]) ]

\* refreshAccessToken() is called and posts the exchange (lines 29-38)
StCalled ==
  /\ store.phase = "start"
  /\ store' = [ store EXCEPT !.phase = "refreshing" ]
  /\ UNCHANGED << mainVars, lf, rt, sx, p8, ga >>

\* the exchange is answered with 200 and data (lines 43-57)
StRefreshOk(data) ==
  /\ store.phase = "refreshing"
  /\ store' = [ store EXCEPT
               !.phase   = "done",
               !.data    = data,
               !.console = Append(@, Line("Token refreshed successfully", "")),
               !.file    = NewEnv(store.file, store.mem, data),
               !.mem     = [ @ EXCEPT !["CTRADER_ACCESS_TOKEN"] = data.access_token ] ]
  /\ UNCHANGED << mainVars, lf, rt, sx, p8, ga >>

\* the exchange is answered with a non-OK status (lines 39-42)
StRefreshNotOk ==
  /\ store.phase = "refreshing"
  /\ store' = [ store EXCEPT !.phase = "exited",
                       !.console = Append(@, Line("Token refresh failed", "")) ]
  /\ UNCHANGED << mainVars, lf, rt, sx, p8, ga >>

NextStore ==
  \/ StCalled
  \/ \E data \in RefreshBodies : StRefreshOk(data)
  \/ StRefreshNotOk

(***************************************************************************)
(* src/_arch_working/getTradingAccounts.mjs: one connection that asks for  *)
(* the accounts of the access token and ends.  Its state is the record ga. *)
(***************************************************************************)
GaMaxFrames == 4

\* named: the payload-type enum of the .proto files, which are not part of
\* the sources, has the name PROTO_OA_GET_ACCOUNTS_BY_ACCESS_TOKEN_REQ of
\* line 49
GaInit(named) ==
  [ run        |-> "running",     \* or "crashed"
    named      |-> named,
    state      |-> "connecting",  \* then "open", "ended", "destroyed", "closed"
    connects   |-> 1,             \* calls of tls.connect: line 70, run once by line 158
    wire       |-> <<>>,          \* bytes in flight from the gateway
    recvBuffer |-> <<>>,          \* line 78
    log        |-> <<>>,          \* requests written and frames dispatched
    console    |-> <<>>,
    nFrames    |-> 0 ]

GaSay(l, m) == [ l EXCEPT !.console = Append(@, Line(m, "")) ]

\* sendMessage, lines 52-68.  socket.write() on a socket that was ended
\* writes nothing and destroys the socket with ERR_STREAM_WRITE_AFTER_END,
\* on a destroyed socket it writes nothing; line 67 prints all the same.
GaSendMessage(l, typeName, cause) ==
  IF typeName = "ProtoOAGetAccountListByAccessTokenReq" /\ ~l.named
    THEN GaSay(l, "No payloadType mapping found")
  ELSE LET l1 == CASE l.state = "open"  ->
                        [ l EXCEPT !.log = Append(@, Entry(1, "tx", typeName, 0, cause)) ]
                   [] l.state = "ended" -> [ l EXCEPT !.state = "destroyed" ]
                   [] OTHER             -> l
       IN  [ l1 EXCEPT !.console = Append(@, Line("Sent", typeName)) ]

\* socket.end(), lines 111 and 133
GaEnd(l) == IF l.state = "open" THEN [ l EXCEPT !.state = "ended" ] ELSE l

\* an ERROR_RES case that leaves the socket open
GaOnErrorResStaysOpen(l) == GaSay(l, "Error")

\* case PROTO_OA_ERROR_RES, lines 108-112
GaOnErrorRes(l) == GaEnd(GaSay(l, "Error"))

\* the cases of the switch, lines 93, 101, 108, 114; "" for the default
GaKind(pt) ==
  CASE pt = PROTO_OA_VERSION_RES                     -> "VERSION_RES"
    [] pt = PROTO_OA_APPLICATION_AUTH_RES            -> "APPLICATION_AUTH_RES"
    [] pt = PROTO_OA_ERROR_RES                       -> "ERROR_RES"
    [] pt = PROTO_OA_GET_ACCOUNTS_BY_ACCESS_TOKEN_RES -> "ACCOUNT_LIST_RES"
    [] OTHER                                         -> ""

\* the switch, lines 92-145.  The first byte of an account list's payload
\* is the number of its accounts.
GaDispatch(l, wrap) ==
  LET ev == GaKind(wrap.payloadType)
      l1 == [ l EXCEPT !.log = Append(@, Entry(1, "rx", ev, 0, 0)) ]
      me == Len(l1.log)
  IN  CASE ev = "VERSION_RES"          ->
             GaSendMessage(GaSay(l1, "Version handshake complete"),
                           "ProtoOAApplicationAuthReq", me)
        [] ev = "APPLICATION_AUTH_RES" ->
             GaSendMessage(GaSay(l1, "Application authenticated"),
                           "ProtoOAGetAccountListByAccessTokenReq", me)
        [] ev = "ERROR_RES"            -> GaOnErrorRes(l1)
        [] ev = "ACCOUNT_LIST_RES"     ->
             GaEnd(GaSay(l1, IF ErrorCodeOf(wrap.payload) = 0
                               THEN "No ctidTraderAccount found in response"
                               ELSE "Retrieved trading accounts"))
        [] OTHER                       -> GaSay(l1, "Unknown payloadType received")

\* the loop of the 'data' handler, lines 80-147; the exception of line 88
\* ends the handler and, caught by nobody, the process
RECURSIVE GaFrameLoop(_)
GaFrameLoop(l) ==
  IF l.run # "running" \/ Len(l.recvBuffer) < 4 THEN l
  ELSE LET messageLength == ReadUInt32BE(l.recvBuffer) IN
       IF Len(l.recvBuffer) < 4 + messageLength THEN l
       ELSE LET messageBuffer == SubSeq(l.recvBuffer, 5, 4 + messageLength)
                l1 == [ l EXCEPT !.recvBuffer = SubSeq(@, 5 + messageLength, Len(@)) ]
            IN  IF ~Decodable(messageBuffer)
                  THEN [ l1 EXCEPT !.run = "crashed" ]
                  ELSE GaFrameLoop(GaDispatch(l1, DecodeEnvelope(messageBuffer)))

GaBodies ==
  { EncodeEnvelope(PROTO_OA_VERSION_RES, <<>>),
    EncodeEnvelope(PROTO_OA_APPLICATION_AUTH_RES, <<>>),
    EncodeEnvelope(PROTO_OA_GET_ACCOUNTS_BY_ACCESS_TOKEN_RES, <<0>>),
    EncodeEnvelope(PROTO_OA_GET_ACCOUNTS_BY_ACCESS_TOKEN_RES, <<1>>),
    EncodeEnvelope(PROTO_OA_ERROR_RES, <<ERR_OTHER>>),
    EncodeEnvelope(PT_UNRECOGNIZED, <<>>),
    <<>> }

\* the callback of tls.connect, lines 70-76
GaConnected ==
  /\ ga.run = "running"
  /\ ga.state = "connecting"
  /\ ga' = GaSendMessage([ GaSay(ga, "Connected to cTrader Open API") EXCEPT !.state = "open" ],
                         "ProtoOAVersionReq", 0)
  /\ UNCHANGED << mainVars, lf, rt, sx, p8, store >>

\* socket.on('data'), lines 80-147: the first n bytes in flight arrive; a
\* socket that was ended still reads until the gateway closes
GaData(n) ==
  /\ ga.run = "running"
  /\ ga.state \in {"open", "ended"}
  /\ n \in 1..Len(ga.wire)
  /\ ga' = GaFrameLoop([ ga EXCEPT !.recvBuffer = @ \o SubSeq(ga.wire, 1, n),
                                   !.wire = SubSeq(@, n + 1, Len(@)) ])
  /\ UNCHANGED << mainVars, lf, rt, sx, p8, store >>

\* the gateway sends a frame
GaGatewaySends(body) ==
  /\ ga.run = "running"
  /\ ga.state \in {"open", "ended"}
  /\ ga.nFrames < GaMaxFrames
  /\ Len(ga.wire) + 4 + Len(body) <= MaxWire
  /\ ga' = [ ga EXCEPT !.wire = @ \o FrameBytes(body), !.nFrames = @ + 1 ]
  /\ UNCHANGED << mainVars, lf, rt, sx, p8, store >>

\* socket.on('error'), lines 149-151, then 'close': the connection fails,
\* or a write after socket.end() has destroyed the socket
GaSocketFails ==
  /\ ga.run = "running"
  /\ ga.state \in {"connecting", "open", "ended", "destroyed"}
  /\ ga' = [ GaSay(GaSay(ga, "Socket error"), "Connection closed") EXCEPT !.state = "closed" ]
  /\ UNCHANGED << mainVars, lf, rt, sx, p8, store >>

\* socket.on('close'), lines 153-155: the gateway closes the connection
GaSocketClose ==
  /\ ga.run = "running"
  /\ ga.state \in {"open", "ended"}
  /\ ga' = [ GaSay(ga, "Connection closed") EXCEPT !.state = "closed" ]
  /\ UNCHANGED << mainVars, lf, rt, sx, p8, store >>

NextAccounts ==
  \/ GaConnected
  \/ \E n \in 1..MaxWire : GaData(n)
  \/ \E body \in GaBodies : GaGatewaySends(body)
  \/ GaSocketFails
  \/ GaSocketClose

(***************************************************************************)
(* The specifications.                                                     *)
(***************************************************************************)
Init ==
  /\ InitMain
  /\ accountId = ConfiguredAccount
  /\ lf = LfInit(FALSE)
  /\ rt = RtInit
  /\ store = StInit(StFullFile)
  /\ ga = GaInit(TRUE)
  /\ p8 = P8Init(TRUE, TRUE)
  /\ sx = SxIdle

\* src/ctrader-live-feed.mjs
Spec == Init /\ [][Next]_vars

\* refreshAccessToken, for every .env file of the five keys
InitStore ==
  /\ InitMain
  /\ accountId = ConfiguredAccount
  /\ lf = LfInit(FALSE)
  /\ rt = RtInit
  /\ sx = SxIdle
  /\ p8 = P8Init(TRUE, TRUE)
  /\ ga = GaInit(TRUE)
  /\ \E file \in Files : store = StInit(file)

SpecStore == InitStore /\ [][NextStore]_vars

\* src/unnamed/part_008, with either reading of what the sources leave open
InitPart008 ==
  /\ InitMain
  /\ accountId = ConfiguredAccount
  /\ lf = LfInit(FALSE)
  /\ rt = RtInit
  /\ sx = SxIdle
  /\ store = StInit(StFullFile)
  /\ ga = GaInit(TRUE)
  /\ \E named \in BOOLEAN : \E encodes \in BOOLEAN : p8 = P8Init(named, encodes)

SpecPart008 == InitPart008 /\ [][NextPart008]_vars

\* src/_arch_working/getTradingAccounts.mjs, with either reading of what
\* the sources leave open
InitAccounts ==
  /\ InitMain
  /\ accountId = ConfiguredAccount
  /\ lf = LfInit(FALSE)
  /\ rt = RtInit
  /\ sx = SxIdle
  /\ p8 = P8Init(TRUE, TRUE)
  /\ store = StInit(StFullFile)
  /\ \E named \in BOOLEAN : ga = GaInit(named)

SpecAccounts == InitAccounts /\ [][NextAccounts]_vars

(***************************************************************************)
(* The frame loop on its own: the client has connected and sent           *)
(* VersionReq, and a stream of whole frames is on its way; the only steps  *)
(* are the 'data' events, which cut the stream wherever they like.         *)
(***************************************************************************)
\* frames in a stream
MaxStream == 3

\* bodies of the frames of a stream: responses, an error, an unknown
\* discriminator, the empty body, and two events of 14 and 15 bytes, which
\* make two frames of 37 bytes together
StreamBodies ==
  { EncodeEnvelope(PROTO_OA_VERSION_RES, <<>>),
    EncodeEnvelope(PROTO_OA_ERROR_RES, <<ERR_TOKEN_EXPIRED>>),
    EncodeEnvelope(PT_UNRECOGNIZED, <<>>),
    <<>>,
    EncodeEnvelope(PROTO_OA_SPOT_EVENT, [ i \in 1..13 |-> 1 ]),
    EncodeEnvelope(PROTO_OA_SPOT_EVENT, [ i \in 1..14 |-> 1 ]) }

\* the bytes of the frames with the bodies bs[1], bs[2], ...
RECURSIVE StreamOf(_)
StreamOf(bs) == IF bs = <<>> THEN <<>> ELSE FrameBytes(Head(bs)) \o StreamOf(Tail(bs))

Streams == { StreamOf(bs) : bs \in UNION { [1..k -> StreamBodies] : k \in 1..MaxStream } }

InitCodec ==
  /\ pc = "running"
  /\ accountId = ConfiguredAccount
  /\ accessToken = NewToken
  /\ refreshToken = OldToken
  /\ env = [ CTRADER_ACCESS_TOKEN |-> NewToken, CTRADER_REFRESH_TOKEN |-> NewToken ]
  /\ sock = 1
  /\ \E stream \in Streams :
       socks = << [ state |-> "open", wire |-> stream, rcvd |-> <<>>, answered |-> 0 ] >>
  /\ recvBuffer = <<>>
  /\ timers = 0
  /\ prompts = <<>>
  /\ log = << Entry(0, "refresh", "refreshAccessToken", OldToken, 0),
              Entry(1, "tx", "VersionReq", 0, 0) >>
  /\ console = << Line("Token refreshed successfully", ""), Line("Connected", ""),
                  Line("Sent", "VersionReq") >>
  /\ frames = <<>>
  /\ nAsync = 0
  /\ nFrames = 0
  /\ lf = LfInit(FALSE)
  /\ rt = RtInit
  /\ store = StInit(StFullFile)
  /\ ga = GaInit(TRUE)
  /\ p8 = P8Init(TRUE, TRUE)
  /\ sx = SxIdle

NextCodec ==
  \E n \in 1..Len(socks[1].wire) : Data(1, n)

SpecCodec == InitCodec /\ [][NextCodec]_vars

InitDraft175906 ==
  /\ InitMain
  /\ accountId = ConfiguredAccount
  /\ \E expired \in BOOLEAN : lf = LfInit(expired)
  /\ rt = RtInit
  /\ store = StInit(StFullFile)
  /\ ga = GaInit(TRUE)
  /\ p8 = P8Init(TRUE, TRUE)
  /\ sx = SxIdle

\* src/ctrader-live-feed.mjs with a gateway that only answers requests and
\* an operating system that lets the process live
NextOrderly ==
  \/ RefreshCalled
  \/ \E data \in RefreshReplies : RefreshOk(data)
  \/ RefreshNotOk
  \/ StartTickStream
  \/ TimerFires
  \/ \E s \in 1..Len(socks) : Connected(s)
  \/ \E s \in 1..Len(socks) : SocketFails(s)
  \/ \E s \in 1..Len(socks) : SocketClose(s)
  \/ \E s \in 1..Len(socks) : \E n \in 1..MaxWire : Data(s, n)
  \/ \E i \in 1..Len(prompts) : \E a \in Answers : AnswerPrompt(i, a)
  \/ \E s \in 1..Len(socks) : \E req \in ReqKinds : \E m \in Replies(req) : GatewayReplies(s, m)

\* .env may or may not configure an account
InitOrderly ==
  /\ InitMain
  /\ accountId \in {NoAccount, ConfiguredAccount}
  /\ lf = LfInit(FALSE)
  /\ rt = RtInit
  /\ store = StInit(StFullFile)
  /\ ga = GaInit(TRUE)
  /\ p8 = P8Init(TRUE, TRUE)
  /\ sx = SxIdle

SpecOrderly == InitOrderly /\ [][NextOrderly]_vars

\* the same, with an event loop that runs a timer that is due
SpecOrderlyFair == SpecOrderly /\ WF_vars(TimerFires)

(***************************************************************************)
(* The handshake with a gateway that cooperates: the connection stays up,  *)
(* every request gets its matching response, the only frames sent unasked  *)
(* are a SpotEvent or a frame of an unknown kind, and the operator types   *)
(* the name of a listed instrument.  The event loop runs whatever is due.  *)
(***************************************************************************)
UnaskedBodies ==
  { EncodeEnvelope(PROTO_OA_SPOT_EVENT, <<1>>), EncodeEnvelope(PT_UNRECOGNIZED, <<>>) }

ListedAnswers == { a \in Answers : \E id \in {1} : ToUpperCase(SymbolName(id)) = ToUpperCase(a) }

GatewayMatches(s) ==
  \E req \in ReqKinds : \E m \in Replies(req) \ ErrorMsgs : GatewayReplies(s, m)

DataArrives(s) == \E n \in 1..MaxWire : Data(s, n)

OperatorAnswers == \E i \in 1..Len(prompts) : \E a \in ListedAnswers : AnswerPrompt(i, a)

NextHandshake ==
  \/ RefreshCalled
  \/ \E data \in RefreshReplies : RefreshOk(data)
  \/ RefreshNotOk
  \/ StartTickStream
  \/ \E s \in 1..Len(socks) : Connected(s)
  \/ \E s \in 1..Len(socks) : DataArrives(s)
  \/ OperatorAnswers
  \/ \E s \in 1..Len(socks) : GatewayMatches(s)
  \/ \E s \in 1..Len(socks) : \E body \in UnaskedBodies : GatewaySends(s, body)

SpecHandshake ==
  /\ InitOrderly
  /\ [][NextHandshake]_vars
  /\ WF_vars(Connected(1))
  /\ WF_vars(DataArrives(1))
  /\ WF_vars(GatewayMatches(1))
  /\ WF_vars(OperatorAnswers)

(***************************************************************************)
(* The frame loop in the streaming state: the handshake is over, the       *)
(* operator has chosen EURUSD, the gateway has answered SubscribeSpotsReq, *)
(* and a stream of whole frames is on its way.                             *)
(***************************************************************************)
\* the bodies of the responses of a whole handshake
HandshakeBodies ==
  << EncodeEnvelope(PROTO_OA_VERSION_RES, <<>>),
     EncodeEnvelope(PROTO_OA_APPLICATION_AUTH_RES, <<>>),
     EncodeEnvelope(PROTO_OA_ACCOUNT_AUTH_RES, <<>>),
     EncodeEnvelope(PROTO_OA_SYMBOLS_LIST_RES, <<1>>),
     EncodeEnvelope(PROTO_OA_SUBSCRIBE_SPOTS_RES, <<>>) >>

InitStreaming ==
  /\ pc = "running"
  /\ accountId = ConfiguredAccount
  /\ accessToken = NewToken
  /\ refreshToken = OldToken
  /\ env = [ CTRADER_ACCESS_TOKEN |-> NewToken, CTRADER_REFRESH_TOKEN |-> NewToken ]
  /\ sock = 1
  /\ \E stream \in Streams :
       socks = << [ state |-> "open", wire |-> stream, rcvd |-> StreamOf(HandshakeBodies),
                    answered |-> 5 ] >>
  /\ recvBuffer = <<>>
  /\ timers = 0
  /\ prompts = <<>>
  /\ log = << Entry(0, "refresh", "refreshAccessToken", OldToken, 0),
              Entry(1, "tx", "VersionReq", 0, 0),
              Entry(1, "rx", "version", 0, 0),
              Entry(1, "tx", "AppAuthReq", 0, 3),
              Entry(1, "rx", "auth_app", 0, 0),
              Entry(1, "tx", "AccountAuthReq", NewToken, 5),
              Entry(1, "rx", "auth_account", 0, 0),
              Entry(1, "tx", "SymbolsListReq", 0, 7),
              Entry(1, "rx", "symbols_list", 0, 0),
              Entry(1, "tx", "SubscribeSpotsReq", 1, 9),
              Entry(1, "rx", "unhandled", 0, 0) >>
  /\ console = << Line("Token refreshed successfully", ""), Line("Connected", ""),
                  Line("Sent", "VersionReq"), Line("Version handshake complete", ""),
                  Line("Sent", "AppAuthReq"), Line("App authenticated", ""),
                  Line("Sent", "AccountAuthReq"), Line("Account authenticated", ""),
                  Line("Sent", "SymbolsListReq"), Line("Received symbols", ""),
                  Line("symbols.csv written", ""), Line("Sent", "SubscribeSpotsReq"),
                  Line("Unhandled payload", "") >>
  /\ frames = HandshakeBodies
  /\ nAsync = 0
  /\ nFrames = 5
  /\ lf = LfInit(FALSE)
  /\ rt = RtInit
  /\ store = StInit(StFullFile)
  /\ ga = GaInit(TRUE)
  /\ p8 = P8Init(TRUE, TRUE)
  /\ sx = SxIdle

SpecStreaming == InitStreaming /\ [][NextCodec]_vars

(***************************************************************************)
(* One call of send on its own: the client has connected, send is called   *)
(* with a name and a payload, and the gateway echoes the bytes it wrote,   *)
(* so that they come back through the 'data' handler.                      *)
(***************************************************************************)
InitSend ==
  /\ pc = "running"
  /\ accountId = ConfiguredAccount
  /\ accessToken = NewToken
  /\ refreshToken = OldToken
  /\ env = [ CTRADER_ACCESS_TOKEN |-> NewToken, CTRADER_REFRESH_TOKEN |-> NewToken ]
  /\ sock = 1
  /\ socks = << [ state |-> "open", wire |-> <<>>, rcvd |-> <<>>, answered |-> 0 ] >>
  /\ recvBuffer = <<>>
  /\ timers = 0
  /\ prompts = <<>>
  /\ log = << Entry(0, "refresh", "refreshAccessToken", OldToken, 0),
              Entry(1, "tx", "VersionReq", 0, 0) >>
  /\ console = << Line("Token refreshed successfully", ""), Line("Connected", ""),
                  Line("Sent", "VersionReq") >>
  /\ frames = <<>>
  /\ nAsync = 0
  /\ nFrames = 0
  /\ lf = LfInit(FALSE)
  /\ rt = RtInit
  /\ store = StInit(StFullFile)
  /\ ga = GaInit(TRUE)
  /\ p8 = P8Init(TRUE, TRUE)
  /\ \E typeName \in SendNames : \E payload \in Payloads :
       sx = [ SxIdle EXCEPT !.typeName = typeName, !.payload = payload ]

\* send(sock, typeName, payload) is called; an exception it throws is
\* caught by nobody and ends the process; the bytes it writes are echoed
SxSend ==
  /\ pc = "running"
  /\ ~sx.called
  /\ LET r == sendBytes(sx.typeName, sx.payload) IN
       /\ sx' = [ sx EXCEPT !.called = TRUE, !.thrown = r.thrown, !.written = r.written,
                            !.console = r.console ]
       /\ console' = console \o r.console
       /\ socks' = [ socks EXCEPT ![sock].wire = @ \o r.written ]
       /\ pc' = IF r.thrown THEN "crashed" ELSE pc
  /\ UNCHANGED << lf, rt, p8, store, ga, accountId, accessToken, refreshToken, env, sock, recvBuffer, timers,
                  prompts, log, frames, nAsync, nFrames >>

NextSend ==
  \/ SxSend
  \/ \E n \in 1..MaxWire : Data(1, n)

SpecSend == InitSend /\ [][NextSend]_vars

\* the draft of 2025-05-22 17:59
SpecDraft175906 == InitDraft175906 /\ [][NextDraft175906]_vars

\* the draft of 2025-05-22 19:34
SpecDraft193408 == Init /\ [][NextDraft193408]_vars


(***************************************************************************)
(* Histories read by the properties.                                       *)
(***************************************************************************)
\* the bytes delivered on the sockets 1..n, in order of arrival (a socket
\* is closed before the next one is opened)
RECURSIVE Delivered(_)
Delivered(n) == IF n = 0 THEN <<>> ELSE Delivered(n - 1) \o socks[n].rcvd

\* a handler state that holds nothing but a buffer
Blank(buf) ==
  [ buf |-> buf, log |-> <<>>, console |-> <<>>, prompts |-> <<>>,
    frames |-> <<>>, crashed |-> FALSE ]

(***************************************************************************)
(* C1 - chunk-boundary independence: whatever the deliveries were, the     *)
(* frames the loop has extracted so far and the bytes it has left in       *)
(* recvBuffer are those that one run of the loop over all delivered bytes, *)
(* concatenated, extracts and leaves.                                      *)
(***************************************************************************)
ChunkBoundaryIndependence ==
  LET once == FrameLoop(Blank(Delivered(Len(socks))), sock)
  IN  /\ frames = once.frames
      /\ recvBuffer = once.buf

\* 37 bytes have been delivered, the two frames of 18 and 19 bytes they
\* are made of have been extracted, and the third frame of the stream has
\* arrived in part
TwoFramesOf37Bytes ==
  /\ Len(frames) = 2
  /\ Len(frames[1]) = 14
  /\ Len(frames[2]) = 15
  /\ Len(socks[1].rcvd) > 37
  /\ recvBuffer # <<>>


(***************************************************************************)
(* The handshake as the properties read it off the log.                    *)
(***************************************************************************)
Idx == 1..Len(log)

IsTx(i) == log[i].d = "tx"

IsRx(i) == log[i].d = "rx"

\* the request of the stage before the one of request k
PrevReq(k) ==
  CASE k = "AppAuthReq"        -> "VersionReq"
    [] k = "AccountAuthReq"    -> "AppAuthReq"
    [] k = "SymbolsListReq"    -> "AccountAuthReq"
    [] k = "SubscribeSpotsReq" -> "SymbolsListReq"
    [] OTHER                   -> "none"

\* the event the matching response of request k is dispatched as
ResponseEvent(k) ==
  CASE k = "VersionReq"     -> "version"
    [] k = "AppAuthReq"     -> "auth_app"
    [] k = "AccountAuthReq" -> "auth_account"
    [] k = "SymbolsListReq" -> "symbols_list"
    [] OTHER                -> "unhandled"

HandshakeEvents == {"version", "auth_app", "auth_account", "symbols_list"}

\* the index of the last request written to socket c before entry i, or 0
LastTxBefore(c, i) ==
  LET before == { q \in 1..(i - 1) : IsTx(q) /\ log[q].c = c }
  IN  IF before = {} THEN 0 ELSE CHOOSE q \in before : \A r \in before : r <= q

\* the received entry i is the response the client is waiting for: the
\* last request written on its connection is the one it answers, and that
\* request has not been answered before
Expected(i) ==
  LET c == log[i].c
      q == LastTxBefore(c, i)
  IN  /\ q # 0
      /\ ResponseEvent(log[q].k) = log[i].k
      /\ \A r \in (q + 1)..(i - 1) : ~(IsRx(r) /\ log[r].c = c /\ log[r].k = log[i].k)

IsExpiredError(i) == IsRx(i) /\ log[i].k = "error_res" /\ log[i].v = ERR_TOKEN_EXPIRED

(***************************************************************************)
(* C2 - handshake order: a request of a stage after the first is written   *)
(* to a connection only after the request of the stage before it was       *)
(* written to that connection and its matching response was received on    *)
(* it, and at most once per such response.                                 *)
(***************************************************************************)
HandshakeInOrder ==
  \A j \in Idx :
    (IsTx(j) /\ log[j].k # "VersionReq") =>
      LET c == log[j].c
          p == PrevReq(log[j].k)
      IN  /\ \E i \in 1..(j - 1) : \E r \in (i + 1)..(j - 1) :
               /\ IsTx(i) /\ log[i].c = c /\ log[i].k = p
               /\ IsRx(r) /\ log[r].c = c /\ log[r].k = ResponseEvent(p)
          /\ Cardinality({ t \in 1..j : IsTx(t) /\ log[t].c = c /\ log[t].k = log[j].k })
               <= Cardinality({ r \in 1..j : IsRx(r) /\ log[r].c = c /\ log[r].k = ResponseEvent(p) })

(***************************************************************************)
(* C3 - a reconnection starts afresh: the first request written to every   *)
(* socket after the first is VersionReq, and every request written to it   *)
(* was caused by a frame received on it (or by its own connect callback),  *)
(* never by something left over from an earlier connection.                *)
(***************************************************************************)
ReconnectRestartsHandshake ==
  \A j \in Idx :
    (IsTx(j) /\ log[j].c > 1) =>
      /\ (LastTxBefore(log[j].c, j) = 0 => log[j].k = "VersionReq")
      /\ (log[j].cause # 0 => log[log[j].cause].c = log[j].c)

(***************************************************************************)
(* C4 - recvBuffer holds only bytes of the current connection: it is a     *)
(* suffix of the bytes received on the socket that sock refers to, hence   *)
(* empty when a reconnection starts.                                       *)
(***************************************************************************)
IsSuffix(a, b) ==
  /\ Len(a) <= Len(b)
  /\ SubSeq(b, Len(b) - Len(a) + 1, Len(b)) = a

RecvBufferOfCurrentConnection ==
  sock # 0 => IsSuffix(recvBuffer, socks[sock].rcvd)

(***************************************************************************)
(* C5 - after an ErrorRes with the credential-expired code, exactly one    *)
(* refresh is started before the next request is written.                  *)
(***************************************************************************)
ExpiredErrorRefreshedOnce ==
  \A i \in Idx : \A j \in Idx :
    ( /\ IsExpiredError(i)
      /\ i < j
      /\ IsTx(j)
      /\ \A t \in (i + 1)..(j - 1) : ~IsTx(t) )
    => Cardinality({ r \in (i + 1)..(j - 1) : log[r].d = "refresh" }) = 1

(***************************************************************************)
(* C6 - when the gateway answers AccountAuthReq with the credential-       *)
(* expired ErrorRes, every AccountAuthReq written afterwards follows a     *)
(* refresh and carries another access token than the rejected one.         *)
(***************************************************************************)
AccountAuthRetriedWithRefreshedToken ==
  \A i \in Idx : \A j \in Idx :
    LET q == LastTxBefore(log[i].c, i) IN
    ( /\ IsExpiredError(i)
      /\ q # 0
      /\ log[q].k = "AccountAuthReq"
      /\ i < j
      /\ IsTx(j)
      /\ log[j].k = "AccountAuthReq" )
    => /\ \E r \in (i + 1)..(j - 1) : log[r].d = "refresh"
       /\ log[j].v # log[q].v

(***************************************************************************)
(* C7 - one request in flight: when a request is written to a connection,  *)
(* every request written to it earlier has been answered, by its matching  *)
(* response or by an ErrorRes.                                             *)
(***************************************************************************)
OneRequestInFlight ==
  \A j \in Idx : \A i \in 1..(j - 1) :
    (IsTx(j) /\ IsTx(i) /\ log[i].c = log[j].c) =>
      \E r \in (i + 1)..(j - 1) :
        /\ IsRx(r)
        /\ log[r].c = log[i].c
        /\ log[r].k \in { ResponseEvent(log[i].k), "error_res" }

(***************************************************************************)
(* C9 - an ErrorRes never causes a request, and one whose code is not the  *)
(* credential-expired code is reported and ends the session: the           *)
(* connection it arrived on is open no longer.                             *)
(***************************************************************************)
ErrorEndsSession ==
  \A i \in Idx :
    (IsRx(i) /\ log[i].k = "error_res") =>
      /\ \A j \in Idx : IsTx(j) => log[j].cause # i
      /\ (log[i].v # ERR_TOKEN_EXPIRED =>
            /\ \E l \in 1..Len(console) : console[l] = Line("API Error", "other")
            /\ socks[log[i].c].state # "open")

(***************************************************************************)
(* C10 - a handshake response that is not the one expected in the current  *)
(* stage causes no request.                                                *)
(***************************************************************************)
UnexpectedResponseIgnored ==
  \A i \in Idx :
    (IsRx(i) /\ log[i].k \in HandshakeEvents /\ ~Expected(i)) =>
      \A j \in Idx : IsTx(j) => log[j].cause # i


(***************************************************************************)
(* C8 - in the draft of 17:59, a closed socket has scheduled a reconnect   *)
(* and told the operator so if the client had not destroyed it itself,     *)
(* and has scheduled none if the client had.                               *)
(***************************************************************************)
CloseReconnectsUnlessRequested ==
  \A s \in 1..Len(lf.socks) :
    lf.socks[s].state = "closed" =>
      IF lf.socks[s].requested
        THEN ~lf.socks[s].reconnect
        ELSE /\ lf.socks[s].reconnect
             /\ \E l \in 1..Len(lf.console) :
                  lf.console[l] = Line("Connection closed, reconnecting in 5s", "")


(***************************************************************************)
(* Counting on the histories.                                              *)
(***************************************************************************)
\* the frames extracted so far whose envelope carries discriminator pt
FramesOf(pt) == { f \in 1..Len(frames) : Decodable(frames[f]) /\ frames[f][1] = pt }

\* the entries of log that record a dispatch as event ev
RxOf(ev) == { i \in Idx : IsRx(i) /\ log[i].k = ev }

\* the requests written so far
TxAll == { j \in Idx : IsTx(j) }

(***************************************************************************)
(* C11 - a frame with a discriminator the switch has no case for is        *)
(* ignored: it raises nothing (the process ends only on a body that is no  *)
(* envelope), it causes no request, as long as only such frames have       *)
(* arrived the client's state is the one the connect callback left, and    *)
(* every SpotEvent frame extracted, before or after it, is dispatched.     *)
(***************************************************************************)
UnrecognizedFrameIgnored ==
  /\ (pc = "crashed" => (frames # <<>> /\ ~Decodable(frames[Len(frames)])))
  /\ \A i \in RxOf("unhandled") : \A j \in TxAll : log[j].cause # i
  /\ Cardinality(RxOf("unhandled")) = Cardinality(FramesOf(PT_UNRECOGNIZED))
  /\ Cardinality(RxOf("spot")) = Cardinality(FramesOf(PROTO_OA_SPOT_EVENT))
  /\ (FramesOf(PT_UNRECOGNIZED) = 1..Len(frames)) =>
        /\ pc = "running"
        /\ Cardinality(TxAll) = 1
        /\ prompts = <<>>
        /\ timers = 0
        /\ sock = 1
        /\ socks[1].state = "open"
        /\ accessToken = NewToken

\* an unrecognised frame was dispatched and the two SpotEvent frames that
\* followed it in the stream were dispatched after it
SpotsAfterUnrecognized ==
  /\ Len(frames) = 3
  /\ frames[1][1] = PT_UNRECOGNIZED
  /\ \E i \in RxOf("unhandled") :
       Cardinality({ j \in RxOf("spot") : j > i }) = 2


(***************************************************************************)
(* C12 - a frame is extracted only when all its declared bytes have        *)
(* arrived, and its body is exactly the declared number of bytes after the *)
(* prefix: the bodies extracted so far, each behind the prefix that        *)
(* declares its length, followed by what is left in recvBuffer, are        *)
(* byte for byte what has been delivered.                                  *)
(***************************************************************************)
FramesAreWholeAndExact ==
  StreamOf(frames) \o recvBuffer = Delivered(Len(socks))

\* three frames were extracted, the last a SpotEvent of 14 bytes, and no
\* byte is left over
ThreeWholeFrames ==
  /\ Len(frames) = 3
  /\ Len(frames[3]) = 14
  /\ frames[1] # frames[2]
  /\ recvBuffer = <<>>


(***************************************************************************)
(* C13 - the refresh of the draft of 19:34 has a bounded budget: at most   *)
(* maxRetries exchanges are ever posted, with a delay of at most 30 s      *)
(* after each failed one but the last; when maxRetries attempts have       *)
(* failed the refresh has ended in the fatal error, which is printed, and  *)
(* it ends so only then.                                                   *)
(***************************************************************************)
RtFailed == { l \in 1..Len(rt.console) : rt.console[l].m = "Token refresh failed" }

RefreshBudgetBounded ==
  /\ rt.fetches <= maxRetries
  /\ Len(rt.slept) <= maxRetries - 1
  /\ \A d \in 1..Len(rt.slept) : rt.slept[d] <= 30000
  /\ Cardinality(RtFailed) <= rt.fetches
  /\ (rt.phase = "failed") <=> (Cardinality(RtFailed) = maxRetries)
  /\ rt.phase = "failed" =>
       /\ rt.fetches = maxRetries
       /\ rt.console[Len(rt.console)] = Line("Max retries exceeded for token refresh", "")
       /\ rt.token = OldToken

\* the budget is exhausted: five attempts have failed, four delays were
\* waited, the longest of 20 s
RefreshBudgetExhausted ==
  /\ rt.phase = "failed"
  /\ rt.slept = << 5000, 10000, 15000, 20000 >>


(***************************************************************************)
(* C14 - the .env file holds a whole pair at every moment, the process     *)
(* being alive or not: the pair it held at the start, or the pair that     *)
(* one exchange returned.                                                  *)
(***************************************************************************)
EnvHoldsWholePair ==
  \/ env = [ CTRADER_ACCESS_TOKEN |-> OldToken, CTRADER_REFRESH_TOKEN |-> OldToken ]
  \/ \E data \in RefreshReplies :
       env = [ CTRADER_ACCESS_TOKEN  |-> data.access_token,
               CTRADER_REFRESH_TOKEN |-> data.refresh_token ]


(***************************************************************************)
(* C15 - the credentials in memory change together and only by a           *)
(* successful refresh: until the exchange has succeeded both are the ones  *)
(* read at start-up, and once it has both are the ones it returned, which  *)
(* are also the ones in the .env file.                                     *)
(***************************************************************************)
CredentialsChangeTogether ==
  /\ pc \in {"start", "refreshing", "exited", "killed"} =>
       /\ accessToken = OldToken
       /\ refreshToken = OldToken
  /\ pc \in {"loading", "running", "crashed"} =>
       /\ \E data \in RefreshReplies :
            /\ accessToken = data.access_token
            /\ refreshToken = data.refresh_token
       /\ accessToken = env.CTRADER_ACCESS_TOKEN
       /\ refreshToken = env.CTRADER_REFRESH_TOKEN


(***************************************************************************)
(* C16 - at most one socket is in use: a socket that is not closed is the  *)
(* one sock refers to, and every socket opened before the newest one is    *)
(* closed.                                                                 *)
(***************************************************************************)
SocketReleasedBeforeNext ==
  /\ \A s \in 1..Len(socks) : socks[s].state # "closed" => s = sock
  /\ \A s \in 1..(Len(socks) - 1) : socks[s].state = "closed"
  /\ Cardinality({ s \in 1..Len(socks) : socks[s].state # "closed" }) <= 1

\* a reconnect cycle is over: the first socket, which had carried the
\* handshake, is closed and the second one is open
SecondSocketOpen ==
  /\ Len(socks) = 2
  /\ Len(Written(1)) >= 2
  /\ socks[1].state = "closed"
  /\ socks[2].state = "open"

(***************************************************************************)
(* C17 - a socket that has closed, the connection having been lost or the  *)
(* attempt having failed, leads to a new connection attempt (within the    *)
(* MaxConn sockets of a run), the event loop running the timers.           *)
(***************************************************************************)
ReconnectFollowsLoss ==
  \A s \in 1..(MaxConn - 1) :
    (Len(socks) >= s /\ socks[s].state = "closed") ~> (Len(socks) > s)

\* the first connection attempt failed before the TLS handshake ended and
\* a second socket was opened
ReconnectedAfterFailedAttempt ==
  /\ Len(socks) = 2
  /\ socks[1].state = "closed"
  /\ Written(1) = <<>>


(***************************************************************************)
(* C18 - account discovery: with an account configured, AccountAuthReq     *)
(* carries it and no account-list request is ever written; with none       *)
(* configured, every AccountAuthReq follows an account-list request on its *)
(* connection and carries an account identifier, not NaN.                  *)
(***************************************************************************)
\* the ctidTraderAccountId that line 124 puts into AccountAuthReq
AccountIdSent == ParseInt(accountId)

AccountListKinds == {"GetAccountListByAccessTokenReq", "GetAccountsReq"}

AccountDiscoveryConditional ==
  \A j \in Idx :
    (IsTx(j) /\ log[j].k = "AccountAuthReq") =>
      IF accountId # NoAccount
        THEN /\ AccountIdSent = accountId
             /\ \A i \in Idx : IsTx(i) => log[i].k \notin AccountListKinds
        ELSE /\ AccountIdSent # NaN
             /\ \E i \in 1..(j - 1) :
                  IsTx(i) /\ log[i].c = log[j].c /\ log[i].k \in AccountListKinds


(***************************************************************************)
(* C19 - a frame whose body is no envelope tears the connection down and   *)
(* schedules a reconnect: the process lives on, the connection is closed,  *)
(* and a timer is set or a newer socket exists.                            *)
(***************************************************************************)
MalformedFrameReconnects ==
  \A f \in 1..Len(frames) :
    ~Decodable(frames[f]) =>
      /\ pc = "running"
      /\ \E s \in 1..Len(socks) :
           /\ socks[s].state = "closed"
           /\ (timers > 0 \/ Len(socks) > s)

(***************************************************************************)
(* C20 - the declared length is capped: the loop never waits, buffering,   *)
(* for a frame whose prefix declares 2^30 bytes or more.                   *)
(***************************************************************************)
DeclaredLengthCapped ==
  Len(recvBuffer) >= 4 => ReadUInt32BE(recvBuffer) < 1073741824


(***************************************************************************)
(* C21 - send called with a name that has no encoder in MessageTypes or    *)
(* no discriminator in PayloadMap fails: it throws, the exception ends the *)
(* process, and not a byte was written.                                    *)
(***************************************************************************)
SendOfUnknownKindFails ==
  (sx.called /\ (sx.typeName \notin MessageTypes \/ sx.typeName \notin DOMAIN PayloadMap)) =>
    /\ sx.thrown
    /\ sx.written = <<>>
    /\ pc = "crashed"


(***************************************************************************)
(* C22 - in the streaming state a SpotEvent is forwarded and nothing       *)
(* else: each one dispatched has printed its line, none has caused a       *)
(* request, the bytes not yet framed are where the loop left them, and as  *)
(* long as only SpotEvents have arrived since the subscription the         *)
(* requests written, the credentials and the connection are those of the   *)
(* end of the handshake.                                                   *)
(***************************************************************************)
SpotLines == { l \in 1..Len(console) : console[l] = Line("Spot", "") }

SpotEventOnlyForwarded ==
  /\ \A i \in RxOf("spot") : \A j \in TxAll : log[j].cause # i
  /\ Cardinality(SpotLines) = Cardinality(RxOf("spot"))
  /\ Cardinality(RxOf("spot")) = Cardinality(FramesOf(PROTO_OA_SPOT_EVENT))
  /\ StreamOf(frames) \o recvBuffer = Delivered(Len(socks))
  /\ (\A f \in (Len(HandshakeBodies) + 1)..Len(frames) : f \in FramesOf(PROTO_OA_SPOT_EVENT)) =>
        /\ pc = "running"
        /\ Cardinality(TxAll) = 5
        /\ log[Len(log)].k \in {"unhandled", "spot"}
        /\ prompts = <<>>
        /\ timers = 0
        /\ sock = 1
        /\ socks[1].state = "open"
        /\ accessToken = NewToken
        /\ refreshToken = OldToken
        /\ env = [ CTRADER_ACCESS_TOKEN |-> NewToken, CTRADER_REFRESH_TOKEN |-> NewToken ]

\* three SpotEvents, of both sizes, were forwarded in the streaming state
ThreeSpotsForwarded ==
  /\ Len(frames) = Len(HandshakeBodies) + 3
  /\ Cardinality(SpotLines) = 3
  /\ Len(frames[6]) # Len(frames[7])


(***************************************************************************)
(* C23 - in the draft of 17:59 every call of startLiveFeed looks at the    *)
(* expiry time first: with the token expired it starts a refresh and opens *)
(* no socket yet, with the token valid it opens the socket and starts no   *)
(* refresh, and whenever a socket is opened the token is not expired, the  *)
(* refresh that was awaited having completed.                              *)
(***************************************************************************)
\* this step is a call of startLiveFeed by line 292 or by the timer
LfStartLiveFeedCalled == (~lf.started /\ lf'.started) \/ lf'.timers < lf.timers

RefreshSucceeded ==
  \E l \in 1..Len(console) : console[l] = Line("Token refreshed successfully", "")

Terminated(p) == p \in {"exited", "crashed"}

EveryStepReported ==
  [][ ( \/ (Terminated(pc') /\ ~Terminated(pc))
        \/ timers' > timers
        \/ \E j \in (Len(log) + 1)..Len(log') : log'[j].d \in {"tx", "rx"} )
      => Len(console') > Len(console) ]_vars


(***************************************************************************)
(* C26 - what one send writes is one frame: four bytes holding, big-endian,*)
(* the number of bytes that follow, then the envelope; read back by the    *)
(* receive loop from an empty recvBuffer, in whatever chunks it arrives,   *)
(* it yields that envelope as the only frame and leaves recvBuffer empty.  *)
(***************************************************************************)
SendWritesOneFrame ==
  (sx.called /\ ~sx.thrown) =>
    /\ Len(sx.written) >= 4
    /\ ReadUInt32BE(SubSeq(sx.written, 1, 4)) = Len(sx.written) - 4
    /\ SubSeq(sx.written, 5, Len(sx.written)) =
         EncodeEnvelope(PayloadTypeOf(sx.typeName), EncodeFields(sx.payload, 1))
    /\ \A i \in 1..Len(frames) : i = 1 /\ frames[i] = SubSeq(sx.written, 5, Len(sx.written))
    /\ socks[1].rcvd \o socks[1].wire = sx.written
    /\ socks[1].wire = <<>> => (Len(frames) = 1 /\ recvBuffer = <<>>)
    /\ pc = "running"

\* an envelope of five bytes was written, came back and was extracted
FiveByteEnvelopeReadBack ==
  /\ sx.called
  /\ Len(sx.written) = 9
  /\ socks[1].wire = <<>>
  /\ Len(frames) = 1
  /\ Len(frames[1]) = 5
  /\ recvBuffer = <<>>
  /\ socks[1].rcvd = sx.written


(***************************************************************************)
(* C27 - every kind the client sends has an encoder and a discriminator of *)
(* its own, and every frame received takes exactly one branch of the       *)
(* switch: the branch of its discriminator if it is one of the six cases,  *)
(* the default branch otherwise.                                           *)
(***************************************************************************)
HandledOnReceipt ==
  { PROTO_OA_VERSION_RES, PROTO_OA_APPLICATION_AUTH_RES, PROTO_OA_ACCOUNT_AUTH_RES,
    PROTO_OA_SYMBOLS_LIST_RES, PROTO_OA_SPOT_EVENT, PROTO_OA_ERROR_RES }

OneEncoderOneDiscriminatorOneBranch ==
  /\ \A j \in TxAll : log[j].k \in MessageTypes /\ log[j].k \in DOMAIN PayloadMap
  /\ \A i, j \in TxAll :
       PayloadMap[log[i].k] = PayloadMap[log[j].k] => log[i].k = log[j].k
  /\ \A p1, p2 \in HandledOnReceipt :
       /\ EventOf(p1) # "unhandled"
       /\ EventOf(p1) = EventOf(p2) => p1 = p2
  /\ \A pt \in HandledOnReceipt :
       Cardinality(RxOf(EventOf(pt))) = Cardinality(FramesOf(pt))
  /\ Cardinality(RxOf("unhandled")) =
       Cardinality({ f \in 1..Len(frames) : Decodable(frames[f]) /\ frames[f][1] \notin HandledOnReceipt })
  /\ Cardinality({ i \in Idx : IsRx(i) }) =
       Cardinality({ f \in 1..Len(frames) : Decodable(frames[f]) })

\* all five requests were sent, and a frame took the default branch
AllKindsSentAndOneUnhandled ==
  /\ { log[j].k : j \in TxAll } = DOMAIN PayloadMap
  /\ RxOf("unhandled") # {}


(***************************************************************************)
(* C28 - round trip: the frame that send wrote for a kind and its fields,  *)
(* read back and decoded, gives that kind (by its discriminator) and those *)
(* fields.                                                                 *)
(***************************************************************************)
KindOf(pt) ==
  IF \E k \in DOMAIN PayloadMap : PayloadMap[k] = pt
    THEN CHOOSE k \in DOMAIN PayloadMap : PayloadMap[k] = pt
    ELSE ""

EncodeDecodeRoundTrip ==
  (sx.called /\ ~sx.thrown /\ frames # <<>>) =>
    LET wrap == DecodeEnvelope(frames[1]) IN
      /\ KindOf(wrap.payloadType) = sx.typeName
      /\ DecodeFields(wrap.payload) = sx.payload


(***************************************************************************)
(* C29 - the subscription goes to the connection that asked: every         *)
(* SubscribeSpotsReq is written to the socket on which the SymbolsListRes  *)
(* that opened its prompt arrived, a socket that has received              *)
(* AccountAuthRes and SymbolsListRes itself, and none is handed to a       *)
(* socket that is closed (every 'Sent SubscribeSpotsReq' is a request      *)
(* written).                                                               *)
(***************************************************************************)
SubscribeOnPromptingConnection ==
  /\ \A j \in Idx :
       (IsTx(j) /\ log[j].k = "SubscribeSpotsReq") =>
         /\ log[j].cause # 0
         /\ log[log[j].cause].c = log[j].c
         /\ \E r \in 1..(j - 1) : IsRx(r) /\ log[r].c = log[j].c /\ log[r].k = "auth_account"
         /\ \E r \in 1..(j - 1) : IsRx(r) /\ log[r].c = log[j].c /\ log[r].k = "symbols_list"
  /\ Cardinality({ l \in 1..Len(console) : console[l] = Line("Sent", "SubscribeSpotsReq") })
       = Cardinality({ j \in Idx : IsTx(j) /\ log[j].k = "SubscribeSpotsReq" })


(***************************************************************************)
(* C30 - one connection or one timer: a step sets a reconnect timer        *)
(* exactly when it closes a socket, and then one timer for one socket (an  *)
(* error adds none to the one of its close); so, once connect() has been   *)
(* called, the sockets that are connecting or open and the pending timers  *)
(* number exactly one together.                                            *)
(***************************************************************************)
LiveSockets(ss) == { s \in 1..Len(ss) : ss[s].state \in {"connecting", "open"} }

ClosedSockets(ss) == { s \in 1..Len(ss) : ss[s].state = "closed" }

OneSocketOrOneTimer ==
  /\ [](pc = "running" => Cardinality(LiveSockets(socks)) + timers = 1)
  /\ [][ /\ timers' > timers =>
              /\ timers' = timers + 1
              /\ Cardinality(ClosedSockets(socks')) = Cardinality(ClosedSockets(socks)) + 1
         /\ ClosedSockets(socks') # ClosedSockets(socks) => timers' = timers + 1
       ]_vars

\* the first connection was lost with an error, the second was closed by
\* the gateway, and one timer is pending
TwoLossesOneTimer ==
  /\ pc = "running"
  /\ Len(socks) = 2
  /\ ClosedSockets(socks) = {1, 2}
  /\ timers = 1
  /\ Cardinality({ l \in 1..Len(console) : console[l] = Line("Socket error", "") }) = 1
  /\ Cardinality({ l \in 1..Len(console) : console[l] = Line("Closed, reconnecting in 5s", "") }) = 2


(***************************************************************************)
(* C31 - no complete frame waits in recvBuffer: whenever the 'data'        *)
(* handler has returned, recvBuffer holds fewer than 4 bytes or fewer than *)
(* 4 plus the length its first 4 bytes declare, however many frames the    *)
(* delivery completed.                                                     *)
(***************************************************************************)
NoCompleteFrameWaits ==
  pc = "running" =>
    \/ Len(recvBuffer) < 4
    \/ Len(recvBuffer) < 4 + ReadUInt32BE(recvBuffer)

\* two frames have been dispatched and the prefix of a third, with part of
\* its body, waits for the rest
TwoDispatchedOneIncomplete ==
  /\ pc = "running"
  /\ Len(frames) = 2
  /\ Cardinality({ i \in Idx : IsRx(i) }) = 2
  /\ Len(recvBuffer) > 4
  /\ socks[1].wire # <<>>


(***************************************************************************)
(* C32 - the handshake completes: once the connection has been opened,     *)
(* with a gateway that answers every request with its matching response    *)
(* and an operator who names a listed instrument, the client eventually    *)
(* has written VersionReq, AppAuthReq, AccountAuthReq, SymbolsListReq and   *)
(* SubscribeSpotsReq to it, each once and in this order.                   *)
(***************************************************************************)
KindsWritten(s) == [ i \in 1..Len(Written(s)) |-> Written(s)[i].k ]

HandshakeDone ==
  /\ Len(socks) = 1
  /\ KindsWritten(1) =
       << "VersionReq", "AppAuthReq", "AccountAuthReq", "SymbolsListReq", "SubscribeSpotsReq" >>

HandshakeReachesSubscription ==
  /\ (Len(socks) = 1) ~> HandshakeDone
  /\ [](HandshakeDone => [] HandshakeDone)

\* the subscription was sent although a SpotEvent and nothing else had come
\* unasked on the way
SubscribedDespiteEarlyEvent ==
  /\ HandshakeDone
  /\ RxOf("spot") # {}
  /\ \A i \in RxOf("spot") : \E j \in TxAll : log[j].k = "SubscribeSpotsReq" /\ i < j


(***************************************************************************)
(* C33 - one list, one prompt, at most one subscription: a                 *)
(* SubscribeSpotsReq is sent only by the answer to the prompt of a         *)
(* SymbolsListRes, a list whose prompt is pending has caused none, no list *)
(* causes two, and an answer that names no instrument of the list uses the *)
(* prompt up and sends nothing.                                            *)
(***************************************************************************)
SubscribesOf(i) == { j \in Idx : IsTx(j) /\ log[j].k = "SubscribeSpotsReq" /\ log[j].cause = i }

PromptsOf(i) == { p \in 1..Len(prompts) : prompts[p].cause = i }

LinesOf(m) == { l \in 1..Len(console) : console[l].m = m }

SentSubscribes == { l \in 1..Len(console) : console[l] = Line("Sent", "SubscribeSpotsReq") }

OneSubscribePerList ==
  /\ \A j \in Idx :
       (IsTx(j) /\ log[j].k = "SubscribeSpotsReq") =>
         /\ log[j].cause \in RxOf("symbols_list")
         /\ log[j].cause < j
  /\ \A i \in RxOf("symbols_list") :
       Cardinality(SubscribesOf(i)) + Cardinality(PromptsOf(i)) <= 1
  /\ Cardinality(RxOf("symbols_list")) =
       Len(prompts) + Cardinality(SentSubscribes) + Cardinality(LinesOf("not found"))
  /\ Cardinality({ j \in Idx : IsTx(j) /\ log[j].k = "SubscribeSpotsReq" }) <= Cardinality(SentSubscribes)

\* the operator named an instrument that is not in the list: nothing was
\* sent, and no prompt is open
UnknownInstrumentEndsPrompt ==
  /\ pc = "running"
  /\ Cardinality(RxOf("symbols_list")) = 1
  /\ Cardinality(LinesOf("not found")) = 1
  /\ prompts = <<>>
  /\ \A j \in Idx : log[j].k # "SubscribeSpotsReq"
  /\ socks[1].state = "open"


(***************************************************************************)
(* C34 - in the draft of 17:59, an AuthenticationFailed status is followed *)
(* by one replacement connection: the sockets opened by startLiveFeed that *)
(* are connecting or open are never two, and the replacements under way (a *)
(* live socket, a reconnect timer, a refresh that will call startLiveFeed) *)
(* number at most one.                                                     *)
(***************************************************************************)
LfLive == { s \in 1..Len(lf.socks) : lf.socks[s].state \in {"connecting", "open"} }

OneReplacementAfterAuthFailure ==
  /\ Cardinality(LfLive) <= 1
  /\ Cardinality(LfLive) + lf.timers + Len(lf.pending) <= 1


(***************************************************************************)
(* C35 - in the draft part_008, ApplicationAuthReq is sent at most once a  *)
(* run: the first VERSION_RES dispatched causes it, and no VERSION_RES     *)
(* after the first causes any request.                                     *)
(***************************************************************************)
P8Idx == 1..Len(p8.log)

P8VersionRes == { i \in P8Idx : p8.log[i].d = "rx" /\ p8.log[i].k = "VERSION_RES" }

P8ApplicationAuthReqs ==
  { j \in P8Idx : p8.log[j].d = "tx" /\ p8.log[j].k = "ProtoOAApplicationAuthReq" }

ApplicationAuthSentOnce ==
  /\ Cardinality(P8ApplicationAuthReqs) <= 1
  /\ P8VersionRes # {} => Cardinality(P8ApplicationAuthReqs) = 1
  /\ \A j \in P8ApplicationAuthReqs :
       /\ p8.log[j].cause \in P8VersionRes
       /\ \A i \in P8VersionRes : p8.log[j].cause <= i
  /\ \A i \in P8VersionRes :
       (\E h \in P8VersionRes : h < i) =>
         \A j \in P8Idx : p8.log[j].d = "tx" => p8.log[j].cause # i
  /\ p8.applicationSent = (P8ApplicationAuthReqs # {})
  /\ p8.versionAcked = (P8VersionRes # {})

\* three VERSION_RES frames were dispatched and one ApplicationAuthReq sent
ThreeVersionResOneRequest ==
  /\ Cardinality(P8VersionRes) = 3
  /\ Cardinality(P8ApplicationAuthReqs) = 1
  /\ p8.run = "running"


(***************************************************************************)
(* C36 - after a successful refresh the .env file holds the client id, the *)
(* client secret and the account id it held before, the access token of    *)
(* the response, and the refresh token of the response or, if it carried   *)
(* none, the one stored before; and the access token in the file is the    *)
(* one in memory.                                                          *)
(***************************************************************************)
StoreRewrittenByRefresh ==
  store.phase = "done" =>
    /\ \A k \in { "CTRADER_CLIENT_ID", "CTRADER_CLIENT_SECRET", "CTRADER_ACCOUNT_ID" } :
         store.file[k] = store.file0[k]
    /\ store.file["CTRADER_ACCESS_TOKEN"] = store.data.access_token
    /\ store.file["CTRADER_REFRESH_TOKEN"] =
         IF store.data.refresh_token # NoToken THEN store.data.refresh_token
                                            ELSE store.file0["CTRADER_REFRESH_TOKEN"]
    /\ store.file["CTRADER_ACCESS_TOKEN"] = store.mem["CTRADER_ACCESS_TOKEN"]


(***************************************************************************)
(* C37 - a refresh answered with a non-OK status ends the run: the failure *)
(* is printed, .env and the credentials in memory are the ones of the      *)
(* start, the process has exited (process.exit(1) is the only way to this  *)
(* state), and no socket is opened, then or later.                         *)
(***************************************************************************)
ExitedUntouched ==
  /\ pc = "exited"
  /\ console = << Line("Token refresh failed", "") >>
  /\ env = [ CTRADER_ACCESS_TOKEN |-> OldToken, CTRADER_REFRESH_TOKEN |-> OldToken ]
  /\ accessToken = OldToken
  /\ refreshToken = OldToken
  /\ socks = <<>>
  /\ sock = 0
  /\ timers = 0
  /\ \A j \in Idx : log[j].d = "refresh"

FailedRefreshEndsRun ==
  /\ [](pc = "exited" => ExitedUntouched)
  /\ [][pc = "exited" => pc' = "exited"]_vars
  /\ [][ (pc = "refreshing" /\ socks' = <<>> /\ pc' # "refreshing" /\ console' # console
            /\ console'[Len(console')] = Line("Token refresh failed", "")) => pc' = "exited" ]_vars

\* the exchange failed and the process has exited
ExitedAfterFailedRefresh ==
  /\ pc = "exited"
  /\ Len(log) = 1
  /\ log[1] = Entry(0, "refresh", "refreshAccessToken", OldToken, 0)
  /\ console # <<>>

(***************************************************************************)
(* C38 - getTradingAccounts.mjs terminates its session.  It connects once. *)
(* VersionReq is the first thing it writes; every ApplicationAuthReq is    *)
(* written on a VersionRes and every account-list request on an            *)
(* ApplicationAuthRes, right when that response is dispatched; and when    *)
(* the gateway has answered only what was asked, the three are written in  *)
(* that order.  Once an account-list response or an ErrorRes has been      *)
(* dispatched the socket is ended and no request is written after it; a    *)
(* socket that was ended or closed is never open again, and nothing is     *)
(* written on it.                                                          *)
(***************************************************************************)
GaIdx == 1..Len(ga.log)

GaSent(k) == { i \in GaIdx : ga.log[i].d = "tx" /\ ga.log[i].k = k }

GaGot(k) == { i \in GaIdx : ga.log[i].d = "rx" /\ ga.log[i].k = k }

GaWritten == { i \in GaIdx : ga.log[i].d = "tx" }

GaFinal == GaGot("ACCOUNT_LIST_RES") \cup GaGot("ERROR_RES")

GaOver == {"ended", "destroyed", "closed"}

\* every handshake response dispatched so far answers a request written before it
GaAnsweredWhatWasAsked ==
  /\ \A j \in GaGot("VERSION_RES") : \E i \in GaSent("ProtoOAVersionReq") : i < j
  /\ \A j \in GaGot("APPLICATION_AUTH_RES") :
       \E i \in GaSent("ProtoOAApplicationAuthReq") : i < j

GaSessionInOrder ==
  /\ ga.connects = 1
  /\ GaWritten = GaSent("ProtoOAVersionReq") \cup GaSent("ProtoOAApplicationAuthReq")
                   \cup GaSent("ProtoOAGetAccountListByAccessTokenReq")
  /\ GaSent("ProtoOAVersionReq") \subseteq {1}
  /\ ga.log # <<>> => GaSent("ProtoOAVersionReq") = {1}
  /\ \A i \in GaSent("ProtoOAApplicationAuthReq") :
       /\ ga.log[i].cause = i - 1
       /\ ga.log[i].cause \in GaGot("VERSION_RES")
  /\ \A i \in GaSent("ProtoOAGetAccountListByAccessTokenReq") :
       /\ ga.log[i].cause = i - 1
       /\ ga.log[i].cause \in GaGot("APPLICATION_AUTH_RES")
  /\ GaAnsweredWhatWasAsked =>
       \A i \in GaSent("ProtoOAGetAccountListByAccessTokenReq") :
         \E j \in GaSent("ProtoOAApplicationAuthReq") : 1 < j /\ j < i
  /\ GaFinal # {} =>
       /\ ga.state \in GaOver
       /\ \A j \in GaFinal : \A i \in GaWritten : i < j

====
